---- MODULE Spec2Model ----
(***************************************************************************)
(* Classifier controller (projectsveltos classifier): the reconciler of    *)
(* Classifier objects, modelled as a state machine.                        *)
(*                                                                         *)
(*   - the consistency index (ClusterMap / ClassifierMap under Mux),       *)
(*   - the per (classifier, cluster) deploy / undeploy decisions taken     *)
(*     against the deployer queue,                                         *)
(*   - the label registrations with the key manager and the labels set on  *)
(*     matching clusters.                                                  *)
(*                                                                         *)
(* The specifications share the variables.  Each one moves the part of the *)
(* state its handlers read and write and leaves the rest at its initial    *)
(* value:                                                                  *)
(*   SpecIndex       workers of different classifiers interleaved at Mux   *)
(*   SpecDeploy      one classifier, its fleet and the deployer queue      *)
(*   SpecDeployFair  the same in front of a fixed fleet, with fairness     *)
(*   SpecLabels      several classifiers competing for label keys          *)
(*   SpecRegister    the same, every call to the key manager a step        *)
(*   SpecMux         the passes step by step around Mux, calls logged      *)
(*   SpecCollect     the collector of ClassifierReports, report by report  *)
(*   SpecCalls       one call of a function: classifierHash and            *)
(*                   getCurrentHash, the event filter of the Cluster       *)
(*                   watch, updateClusterInfo                              *)
(*   SpecPush        AgentSendReportsNoGateway mode: AccessRequest,        *)
(*                   kubeconfig and the handler of the deployer            *)
(*   SpecFleet       one classifier reconciled again and again, fairness   *)
(*   SpecReports     the collector next to the passes of a classifier      *)
(***************************************************************************)
EXTENDS Integers, Sequences, FiniteSets, TLC

\* ------------------------------------------------------------------ bounds
NumPolicies == 2
NumClusters == 2
NumKeys == 1
\* the operator and the fleet make at most MaxChanges changes in a run
MaxChanges == 4
\* changes of the kubeconfigs and restarts of the controller in SpecPush
MaxPushChanges == 3
\* the reports and the Specs change at most MaxLabelChanges times in a run of
\* SpecLabels
MaxLabelChanges == 3
\* a Classifier is deleted and the deployer finishes a request at most
\* MaxMuxChanges times in a run of SpecMux
MaxMuxChanges == 3
\* the collector starts at most MaxRounds rounds in a run of SpecCollect, and
\* the reports of the managed clusters change at most MaxReportChanges times
MaxRounds == 2
MaxReportChanges == 1
\* the lists of predicates of a Spec are one of 0..MaxConstraint (0: empty)
MaxConstraint == 2

Policies == 1..NumPolicies
Clusters == 1..NumClusters
Keys == 1..NumKeys

\* the zero value of corev1.ObjectReference (Namespace "", Name "")
ZeroRef == 0

\* no classifier: the free mutex, the unowned label key, the absent label
NoPolicy == 0

\* deleteRequeueAfter / normalRequeueAfter, in seconds
deleteRequeueAfter == 20
normalRequeueAfter == 20

\* the interval of collectClassifierReports, in seconds
interval == 20

VARIABLES
    phase,             \* classifier object: "absent", "live", "deleting" (DeletionTimestamp set)
    finalizer,         \* classifier carries ClassifierFinalizer
    specLabels,        \* Spec.ClassifierLabels: the label keys the classifier sets (value = its own)
    clusterExists,     \* the Cluster object exists
    clusterPaused,     \* Cluster.Spec.Paused
    clusterReady,      \* the cluster is ready to be configured
    clusterDeleting,   \* Cluster.DeletionTimestamp is set
    clusterLabels,     \* Cluster.Labels: key -> value (NoPolicy = key absent, p = value of p's spec)
    reports,           \* ClassifierReport of (classifier, cluster): Spec.Match
    clusterInfo,       \* persisted Status.ClusterInfo (a list)
    matchingStatuses,  \* persisted Status.MachingClusterStatuses (a list)
    ClusterMap,        \* reconciler: cluster -> set of classifiers
    ClassifierMap,     \* reconciler: classifier -> set of clusters
    ClassifierSet,     \* reconciler: classifiers with at least one conflict
    AllClassifierSet,  \* reconciler: existing classifiers
    Mux,               \* reconciler mutex: NoPolicy when free, else the worker (its classifier)
    keyOwner,          \* key manager: (cluster, key) -> owning classifier
    queue,             \* deployer: request (classifier, cluster, cleanup) -> its state
    pc,                \* position of the worker reconciling each classifier
    scope,             \* the worker's classifierScope and locals
    lastPass,          \* what the last finished pass did (calls made, value returned)
    changes,           \* how many changes the operator and the fleet have made
    remote,            \* ClassifierReports in the managed clusters: (cluster, classifier) -> report
    mirror,            \* ClassifierReports in the management cluster, by (namespace, name)
    collector,         \* the report collector: position in its loop and locals
    ClassifierReportMode,  \* reconciler: how the reports reach the management cluster
    access,            \* reconciler ControlPlaneEndpoint, AccessRequests and their
                       \* kubeconfigs, and what each managed cluster holds
    input,             \* arguments of the function under study
    output             \* what the function returned for them

vars == <<phase, finalizer, specLabels, clusterExists, clusterPaused, clusterReady,
          clusterDeleting, clusterLabels, reports, clusterInfo, matchingStatuses, ClusterMap,
          ClassifierMap, ClassifierSet, AllClassifierSet, Mux, keyOwner, queue, pc,
          scope, lastPass, changes, remote, mirror, collector, ClassifierReportMode,
          access, input, output>>

objectVars == <<phase, finalizer, specLabels>>
fleetVars == <<clusterExists, clusterPaused, clusterReady, clusterDeleting>>
indexVars == <<ClusterMap, ClassifierMap, Mux>>
setVars == <<ClassifierSet, AllClassifierSet>>
labelVars == <<clusterLabels, reports, matchingStatuses, keyOwner>>
collectVars == <<remote, mirror, collector>>
callVars == <<input, output>>

reconcilerVars ==
    <<objectVars, fleetVars, labelVars, clusterInfo, indexVars, setVars, queue, pc,
      scope, lastPass, ClassifierReportMode, access>>

\* ----------------------------------------------------------------- helpers
RECURSIVE SetToSeq(_)
SetToSeq(S) ==
    IF S = {} THEN <<>>
    ELSE LET x == CHOOSE y \in S : \A z \in S : y <= z
         IN <<x>> \o SetToSeq(S \ {x})

\* the clusters named by a Status.ClusterInfo list
InfoClusters(infos) == {infos[i].cluster : i \in DOMAIN infos}

NoScope == [clusterInfo |-> <<>>, matching |-> <<>>, labels |-> {},
            current |-> {}, toBeRemoved |-> {}, err |-> FALSE, requeueAfter |-> 0,
            calls |-> <<>>, log |-> <<>>]

\* ------------------------------------------------------------------- names
\* Names are sequences of characters.  Classifier p is named "a", "a--b",
\* "a--b--b", ...; the Clusters, all in namespace "n", are named ..., "b--b--c",
\* "b--c", "c".
RECURSIVE Repeat(_, _)
Repeat(str, n) == IF n = 0 THEN <<>> ELSE str \o Repeat(str, n - 1)

PolicyName(p) == <<"a">> \o Repeat(<<"-", "-", "b">>, p - 1)
ClusterName(c) == Repeat(<<"b", "-", "-">>, NumClusters - c) \o <<"c">>
ClusterNamespace(c) == <<"n">>

\* getClassifierReportName: fmt.Sprintf("%s--%s", classifierName, clusterName)
getClassifierReportName(classifierName, clusterName) ==
    classifierName \o <<"-", "-">> \o clusterName

\* getClusterInfo: fmt.Sprintf("%s--%s", clusterNamespace, clusterName)
getClusterInfo(clusterNamespace, clusterName) ==
    clusterNamespace \o <<"-", "-">> \o clusterName

\* the (namespace, name) of the ClassifierReports the collector may write
MirrorKeys ==
    {<<ClusterNamespace(c), getClassifierReportName(PolicyName(p), ClusterName(c))>> :
        p \in Policies, c \in Clusters}

\* no object under a name
NoObject == [absent |-> TRUE]

\* no ClassifierReport in any managed cluster, none in the management
\* cluster, and the collector before its first round
NoReports ==
    [remote |-> [c \in Clusters |-> [p \in Policies |-> NoObject]],
     mirror |-> [k \in MirrorKeys |-> NoObject],
     collector |->
        [pc |-> "list", clusters |-> <<>>, cluster |-> 0, items |-> <<>>, rounds |-> 0,
         waited |-> 0, collected |-> [p \in Policies |-> [c \in Clusters |-> NoObject]]]]

\* no function called yet
NoCall == [kind |-> "none"]

\* no kubeconfig found in the AccessRequest of the cluster
NoKubeconfig == 0

\* -------------------------------------------------------------------- Init
\* the reconciler, the Classifiers, the fleet and the deployer at start
InitReconciler ==
    /\ phase = [p \in Policies |-> "live"]
    /\ finalizer = [p \in Policies |-> FALSE]
    /\ specLabels = [p \in Policies |-> Keys]
    /\ \E n \in Clusters : clusterExists = [c \in Clusters |-> c <= n]
    /\ clusterPaused = [c \in Clusters |-> FALSE]
    /\ clusterReady = clusterExists
    /\ clusterLabels = [c \in Clusters |-> [k \in Keys |-> NoPolicy]]
    /\ reports = [p \in Policies |-> [c \in Clusters |-> FALSE]]
    /\ clusterInfo = [p \in Policies |-> <<>>]
    /\ matchingStatuses = [p \in Policies |-> <<>>]
    /\ ClusterMap = [c \in Clusters |-> {}]
    /\ ClassifierMap = [p \in Policies |-> {}]
    /\ ClassifierSet = {}
    /\ AllClassifierSet = {}
    /\ Mux = NoPolicy
    /\ keyOwner = [c \in Clusters |-> [k \in Keys |-> NoPolicy]]
    /\ queue = [p \in Policies |-> [c \in Clusters |->
                    [cleanup \in BOOLEAN |-> "none"]]]
    /\ pc = [p \in Policies |-> "idle"]
    /\ scope = [p \in Policies |-> NoScope]
    \* Nothing reconciled yet.  A finished pass records: its kind, the clusters
    \* for which it called Deployer.Deploy (cleanup false / true), the clusters
    \* whose processClassifier or removeClassifier returned an error, the
    \* ctrl.Result (RequeueAfter in seconds, 0 = none) and whether Reconcile
    \* returned an error.
    /\ lastPass = [kind |-> "none", policy |-> NoPolicy, deploy |-> {}, undeploy |-> {},
                   errors |-> {}, requeueAfter |-> 0, err |-> FALSE,
                   finalizerRemoved |-> FALSE]
    /\ changes = 0
    \* no AccessRequest and no kubeconfig yet, nothing in the managed clusters
    /\ access = [cpEndpoint |-> 1,
                 request |-> [c \in Clusters |-> NoObject],
                 kubeconfig |-> [c \in Clusters |-> NoKubeconfig],
                 managed |-> [c \in Clusters |->
                                 [secret |-> NoKubeconfig, crds |-> FALSE, agent |-> FALSE,
                                  instances |-> {}]]]

Init ==
    /\ InitReconciler
    /\ ClassifierReportMode = "CollectFromManagementCluster"
    /\ clusterDeleting = [c \in Clusters |-> FALSE]
    /\ remote = NoReports.remote
    /\ mirror = NoReports.mirror
    /\ collector = NoReports.collector
    /\ input = NoCall
    /\ output = NoCall

\* ------------------------------------------------------- updateClusterInfo
\* A faulty getListOfClusters: the Clusters marked for deletion are listed too.
getListOfClustersWithDeleted == SetToSeq({c \in Clusters : clusterExists[c]})

\* getListOfClusters: every existing Cluster that is not marked for deletion.
getListOfClusters ==
    SetToSeq({c \in Clusters : clusterExists[c] /\ ~clusterDeleting[c]})

NewClusterInfo(c) == [cluster |-> c, status |-> "", hash |-> 0, msg |-> "nil"]

\* A faulty updateClusterInfo: an entry is appended for every listed cluster.
updateClusterInfoAppendAll(infos) ==
    infos \o [i \in DOMAIN getListOfClusters |-> NewClusterInfo(getListOfClusters[i])]

\* updateClusterInfo: append an entry for every listed cluster with no entry yet.
updateClusterInfo(infos) ==
    LET matchingCluster == getListOfClusters
        missing == SelectSeq(matchingCluster, LAMBDA c : c \notin InfoClusters(infos))
    IN infos \o [i \in DOMAIN missing |-> NewClusterInfo(missing[i])]

\* ------------------------------------------------------------ key manager
\* The label key manager (controllers/keymanager): for every (cluster, key) the
\* classifier that owns the key.  A key is claimed where unclaimed and changes
\* owner only through a register or a remove call.
RemoveStaleRegistrations(owner, p, c, labels) ==
    [owner EXCEPT ![c] = [k \in Keys |->
        IF owner[c][k] = p /\ k \notin labels THEN NoPolicy ELSE owner[c][k]]]

RegisterClassifierForLabels(owner, p, c, labels) ==
    [owner EXCEPT ![c] = [k \in Keys |->
        IF owner[c][k] = NoPolicy /\ k \in labels THEN p ELSE owner[c][k]]]

RemoveAllRegistrations(owner, p, c) ==
    IF c = ZeroRef THEN owner
    ELSE [owner EXCEPT ![c] = [k \in Keys |->
            IF owner[c][k] = p THEN NoPolicy ELSE owner[c][k]]]

CanManageLabel(owner, p, c, k) == owner[c][k] = p

\* GetManagerForKey: the owner, NoPolicy standing for the error "no manager".
GetManagerForKey(owner, c, k) == owner[c][k]

\* ------------------------------------------- label registrations and status
\* the orders in which Go may range over a map whose keys are S
Orders(S) ==
    {f \in [1..Cardinality(S) -> S] : \A i, j \in 1..Cardinality(S) : f[i] = f[j] => i = j}

\* the clusters of a Status.MachingClusterStatuses list (ZeroRef included)
StatusRefs(statuses) == {statuses[i].clusterRef : i \in DOMAIN statuses}

\* currentMatchingClusters: the clusters whose ClassifierReport has Spec.Match
currentMatchingClusters(p) == {c \in Clusters : reports[p][c]}

RECURSIVE RegisterAll(_, _, _, _)
RegisterAll(owner, p, labels, current) ==
    IF current = {} THEN owner
    ELSE LET c == CHOOSE x \in current : TRUE
         IN RegisterAll(
                RegisterClassifierForLabels(
                    RemoveStaleRegistrations(owner, p, c, labels), p, c, labels),
                p, labels, current \ {c})

RECURSIVE RemoveAll(_, _, _)
RemoveAll(owner, p, gone) ==
    IF gone = {} THEN owner
    ELSE LET c == CHOOSE x \in gone : TRUE
         IN RemoveAll(RemoveAllRegistrations(owner, p, c), p, gone \ {c})

\* handleLabelRegistrations: stale registrations removed and labels registered
\* on every matching cluster; every registration removed on the clusters of
\* the old status that match no more.
handleLabelRegistrations(owner, p, labels, current, old) ==
    RemoveAll(RegisterAll(owner, p, labels, current), p, old \ current)

\* classifyLabels: the keys of the spec the classifier can manage, and the
\* others, each with the classifier named in its FailureMessage (NoPolicy = no
\* FailureMessage: GetManagerForKey returned an error).
classifyLabels(owner, p, labels, c) ==
    [managed |-> {k \in labels : CanManageLabel(owner, p, c, k)},
     unmanaged |-> {[key |-> k, msg |-> GetManagerForKey(owner, c, k)] :
                        k \in {x \in labels : ~CanManageLabel(owner, p, c, x)}}]

ZeroStatus == [clusterRef |-> ZeroRef, managed |-> {}, unmanaged |-> {}]

\* The loop of updateMatchingClustersAndRegistrations that fills
\* matchingClusterStatus: every cluster of the map, in Go's order, is written
\* at index i, and the loop never changes i.
RECURSIVE FillStatuses(_, _, _, _, _, _)
FillStatuses(arr, order, i, owner, p, labels) ==
    IF order = <<>> THEN arr
    ELSE LET c == Head(order)
             tmp == classifyLabels(owner, p, labels, c)
         IN FillStatuses(
                [arr EXCEPT ![i] = [clusterRef |-> c, managed |-> tmp.managed,
                                    unmanaged |-> tmp.unmanaged]],
                Tail(order), i, owner, p, labels)

\* matchingClusterStatus := make([]MachingClusterStatus, len(current)); i := 0
matchingClusterStatus(owner, p, labels, order) ==
    FillStatuses([j \in 1..Len(order) |-> ZeroStatus], order, 1, owner, p, labels)

\* unManaged != 0 after the loop
hasUnManaged(owner, p, labels, current) ==
    \E c \in current : classifyLabels(owner, p, labels, c).unmanaged # {}

\* A faulty updateLabelsOnCluster: the labels that carry the value of the
\* classifier and are no label of the spec any more are deleted.
updateLabelsOnClusterPruned(owner, p, labels, c, current) ==
    [k \in Keys |->
        IF k \in labels /\ CanManageLabel(owner, p, c, k) THEN p
        ELSE IF current[k] = p /\ k \notin labels THEN NoPolicy
        ELSE current[k]]

\* A faulty updateLabelsOnCluster: every label of the spec is set, the key
\* manager is not asked.
updateLabelsOnClusterUnchecked(owner, p, labels, c, current) ==
    [k \in Keys |-> IF k \in labels THEN p ELSE current[k]]

\* updateLabelsOnCluster: every label of the spec the key manager lets the
\* classifier manage is set to the classifier's value; the others are kept.
updateLabelsOnCluster(owner, p, labels, c, current) ==
    [k \in Keys |->
        IF k \in labels /\ CanManageLabel(owner, p, c, k) THEN p ELSE current[k]]

\* updateLabelsOnMatchingClusters: Get and update the cluster of every entry of
\* Status.MachingClusterStatuses in turn; the first Get that fails ends the loop
\* with an error.  Returns the labels of all clusters and the error.
RECURSIVE updateLabelsOnMatchingClusters(_, _, _, _, _)
updateLabelsOnMatchingClusters(owner, p, labels, statuses, cl) ==
    IF statuses = <<>> THEN [labels |-> cl, err |-> FALSE]
    ELSE LET ref == Head(statuses).clusterRef
         IN IF ref = ZeroRef \/ ~clusterExists[ref]
            THEN [labels |-> cl, err |-> TRUE]
            ELSE updateLabelsOnMatchingClusters(owner, p, labels, Tail(statuses),
                    [cl EXCEPT ![ref] = updateLabelsOnCluster(owner, p, labels, ref, cl[ref])])

\* updateClassifierSet, under Mux
updateClassifierSet(set, p, unManaged) == IF unManaged THEN set \cup {p} ELSE set \ {p}

\* -------------------------------------------------------------- updateMaps
\* A faulty start of updateMaps: the worker goes on without taking the mutex.
UpdateMapsLockUnguarded(p) ==
    /\ pc[p] = "updateMaps"
    /\ Mux' = Mux
    /\ scope' = [scope EXCEPT ![p].current = InfoClusters(scope[p].clusterInfo),
                              ![p].toBeRemoved =
                                  ClassifierMap[p] \ InfoClusters(scope[p].clusterInfo)]
    /\ pc' = [pc EXCEPT ![p] = "um_insert"]

\* updateMaps up to Mux.Lock(): currentClusters is built from the scope's
\* Status.ClusterInfo, then the worker takes the mutex and computes toBeRemoved.
UpdateMapsLock(p) ==
    /\ pc[p] = "updateMaps"
    /\ Mux = NoPolicy
    /\ Mux' = p
    /\ scope' = [scope EXCEPT ![p].current = InfoClusters(scope[p].clusterInfo),
                              ![p].toBeRemoved =
                                  ClassifierMap[p] \ InfoClusters(scope[p].clusterInfo)]
    /\ pc' = [pc EXCEPT ![p] = "um_insert"]

\* For each currently matching Cluster, add Classifier as consumer.
mapsInsert(cm, p, current) ==
    [c \in Clusters |-> IF c \in current THEN cm[c] \cup {p} ELSE cm[c]]

\* For each Cluster not matched anymore, remove Classifier as consumer.
mapsErase(cm, p, toBeRemoved) ==
    [c \in Clusters |-> IF c \in toBeRemoved THEN cm[c] \ {p} ELSE cm[c]]

UpdateMapsInsert(p) ==
    /\ pc[p] = "um_insert"
    /\ ClusterMap' = mapsInsert(ClusterMap, p, scope[p].current)
    /\ pc' = [pc EXCEPT ![p] = "um_erase"]

UpdateMapsErase(p) ==
    /\ pc[p] = "um_erase"
    /\ ClusterMap' = mapsErase(ClusterMap, p, scope[p].toBeRemoved)
    /\ pc' = [pc EXCEPT ![p] = "um_assign"]

\* Update the list of Clusters of the Classifier; the deferred Unlock runs.
UpdateMapsAssign(p) ==
    /\ pc[p] = "um_assign"
    /\ ClassifierMap' = [ClassifierMap EXCEPT ![p] = scope[p].current]
    /\ Mux' = IF Mux = p THEN NoPolicy ELSE Mux
    /\ pc' = [pc EXCEPT ![p] = "idle"]

\* updateMaps as one worker runs it from Lock to Unlock
updateMaps(cm, fm, p, infos) ==
    LET currentClusters == InfoClusters(infos)
        toBeRemoved == fm[p] \ currentClusters
    IN [ClusterMap |-> mapsErase(mapsInsert(cm, p, currentClusters), p, toBeRemoved),
        ClassifierMap |-> [fm EXCEPT ![p] = currentClusters]]

\* ---------------------------------------------------------------- deployer
\* The deployer queue (deployer.DeployerInterface), by request (classifier,
\* cluster, cleanup): "none" (never queued, or its result is gone),
\* "inprogress" (queued or running), "done", "failed".
IsInProgress(q, p, c, cleanup) == q[p][c][cleanup] = "inprogress"

GetResult(q, p, c, cleanup) ==
    CASE q[p][c][cleanup] = "inprogress" -> "InProgress"
      [] q[p][c][cleanup] = "failed" -> "Failed"
      [] q[p][c][cleanup] = "done" -> IF cleanup THEN "Removed" ELSE "Deployed"
      [] OTHER -> "Unavailable"

\* A faulty Deploy: the request is not queued.
DeployNotQueued(q, p, c, cleanup) == q

\* Deploy: the request is queued (a result it had is dropped).
Deploy(q, p, c, cleanup) == [q EXCEPT ![p][c][cleanup] = "inprogress"]

\* A worker of the deployer finishes a request, with or without an error.
QueueComplete(p, c, cleanup, ok) ==
    /\ queue[p][c][cleanup] = "inprogress"
    /\ queue' = [queue EXCEPT ![p][c][cleanup] = IF ok THEN "done" ELSE "failed"]

\* ------------------------------------------------------ deploy / undeploy
\* A faulty conversion: every result is taken as unavailable.
convertResultStatusUnavailable(result) == "nil"

\* convertResultStatus; "nil" is the nil *ClassifierFeatureStatus
convertResultStatus(result) ==
    CASE result = "Deployed" -> "Provisioned"
      [] result = "Failed" -> "Failed"
      [] result = "InProgress" -> "Provisioning"
      [] result = "Removed" -> "Removed"
      [] OTHER -> "nil"

RECURSIVE Pow2(_)
Pow2(n) == IF n = 0 THEN 1 ELSE 2 * Pow2(n - 1)

RECURSIVE SumPow2(_)
SumPow2(S) ==
    IF S = {} THEN 0
    ELSE LET k == CHOOSE x \in S : TRUE IN Pow2(k - 1) + SumPow2(S \ {k})

\* A Classifier Spec: the labels to set (ClassifierLabels) and the two lists
\* of predicates, each list taken as a whole (0: the empty list).
ClassifierSpec(labels, versions, resources) ==
    [ClassifierLabels |-> labels, KubernetesVersionConstraints |-> versions,
     DeployedResourceConstraints |-> resources]

\* A faulty rendering: KubernetesVersionConstraints is left out.
AsCodeNoVersions(spec) ==
    <<spec.DeployedResourceConstraints, SumPow2(spec.ClassifierLabels)>>

\* render.AsCode(classifier.Spec): the text of the Spec, every field rendered
\* in the order of the struct.
AsCode(spec) ==
    <<spec.DeployedResourceConstraints, spec.KubernetesVersionConstraints,
      SumPow2(spec.ClassifierLabels)>>

\* sha256 of a text: one digest per text (no two texts of the model collide),
\* never the nil hash 0.
RECURSIVE Sum256(_)
Sum256(text) ==
    IF text = <<>> THEN 1
    ELSE CHOOSE digest \in {2 + ((Head(text) + b) * (Head(text) + b + 1)) \div 2 + b :
                                b \in {Sum256(Tail(text))}} : TRUE

\* classifierHash: the digest of the rendered Spec
classifierHash(spec) == Sum256(AsCode(spec))

\* A faulty getCurrentHash: the hash of the Spec in either mode.
getCurrentHashOfSpecOnly(mode, spec, kubeconfig, cpEndpoint) == classifierHash(spec)

\* getCurrentHash: the hash of the Spec; in AgentSendReportsNoGateway mode,
\* when there is a kubeconfig for the cluster, the digest of that hash, the
\* kubeconfig and the control plane endpoint.
getCurrentHash(mode, spec, kubeconfig, cpEndpoint) ==
    LET currentHash == classifierHash(spec)
    IN IF mode = "AgentSendReportsNoGateway" /\ kubeconfig # NoKubeconfig
       THEN Sum256(<<currentHash, kubeconfig, cpEndpoint>>)
       ELSE currentHash

\* getKubeconfigFromAccessRequest: the kubeconfig in the Secret the
\* AccessRequest of cluster c refers to; none while there is no AccessRequest,
\* or no Secret for it yet.
getKubeconfigFromAccessRequest(acc, c) ==
    IF acc.request[c] = NoObject THEN NoKubeconfig ELSE acc.kubeconfig[c]

\* the hash processClassifier computes, in CollectFromManagementCluster mode,
\* for a Classifier whose Spec holds the labels and no predicate
currentHashOfLabels(labels) ==
    getCurrentHash("CollectFromManagementCluster", ClassifierSpec(labels, 0, 0),
                   NoKubeconfig, 0)

\* getClassifierInClusterHashAndStatus: hash and status of the first entry of
\* the cluster; the nil hash and the nil status when it has none.
getClassifierInClusterHashAndStatus(infos, c) ==
    LET found == SelectSeq(infos, LAMBDA e : e.cluster = c)
    IN IF found = <<>> THEN [hash |-> 0, status |-> "nil"]
       ELSE [hash |-> found[1].hash, status |-> found[1].status]

\* isPaused: the Cluster is paused (a Cluster that is not found is not).  No
\* Classifier carries the paused annotation here.
isPaused(c) == clusterExists[c] /\ clusterPaused[c]

\* canProceed: not paused and ready to be configured
canProceed(c) == ~isPaused(c) /\ clusterReady[c]

\* A faulty test: the undeploy in progress is not seen.
cleanupInProgressIgnored(q, p, c) == FALSE

\* processClassifier: "If undeploying feature is in progress, wait for it to
\* complete."
cleanupInProgress(q, p, c) == IsInProgress(q, p, c, TRUE)

\* A faulty test: the deploy in progress is not seen.
deployInProgressIgnored(q, p, c) == FALSE

\* removeClassifier: "If deploying feature is in progress, wait for it to
\* complete."
deployInProgress(q, p, c) == IsInProgress(q, p, c, FALSE)

\* A faulty test: a pair recorded as Provisioned is never taken as deployed.
alreadyDeployedNever(isConfigSame, currentStatus) == FALSE

\* processClassifier: "already deployed" (same hash, recorded as Provisioned)
alreadyDeployed(isConfigSame, currentStatus) ==
    isConfigSame /\ currentStatus = "Provisioned"

Outcome(has, info, err, deploy) ==
    [has |-> has, info |-> info, err |-> err, deploy |-> deploy]

ClusterInfoOf(c, status, hash, msg) ==
    [cluster |-> c, status |-> status, hash |-> hash, msg |-> msg]

\* processClassifier: what to do for one cluster.  Returns whether a ClusterInfo
\* is returned, the ClusterInfo, whether an error is returned and whether
\* Deployer.Deploy is called.
processClassifier(q, p, labels, infos, c) ==
    LET currentHash == getCurrentHash(ClassifierReportMode,
                                      ClassifierSpec(labels, 0, 0),
                                      getKubeconfigFromAccessRequest(access, c),
                                      access.cpEndpoint)
        prev == getClassifierInClusterHashAndStatus(infos, c)
        isConfigSame == prev.hash = currentHash
        result == GetResult(q, p, c, FALSE)
        status == IF isConfigSame THEN convertResultStatus(result) ELSE "nil"
    IN IF ~clusterExists[c] THEN Outcome(FALSE, NewClusterInfo(c), TRUE, FALSE)
       ELSE IF ~canProceed(c) THEN Outcome(FALSE, NewClusterInfo(c), FALSE, FALSE)
       ELSE IF cleanupInProgress(q, p, c)
       THEN Outcome(FALSE, NewClusterInfo(c), TRUE, FALSE)
       ELSE IF status = "Provisioned"
       THEN Outcome(TRUE, ClusterInfoOf(c, status, currentHash, ""), FALSE, FALSE)
       ELSE IF status = "Provisioning"
       THEN Outcome(TRUE, ClusterInfoOf(c, status, currentHash, ""), TRUE, FALSE)
       ELSE IF status # "nil"
       THEN Outcome(TRUE, ClusterInfoOf(c, status, currentHash, "nil"), FALSE, FALSE)
       ELSE IF alreadyDeployed(isConfigSame, prev.status)
       THEN Outcome(TRUE, ClusterInfoOf(c, "Provisioned", currentHash, "nil"),
                    FALSE, FALSE)
       ELSE Outcome(TRUE, ClusterInfoOf(c, "Provisioning", currentHash, "nil"),
                    FALSE, TRUE)

\* Deployer.Deploy called for every cluster of S
DeployAll(q, p, S, cleanup) ==
    [q EXCEPT ![p] = [c \in Clusters |->
        IF c \in S THEN Deploy(q, p, c, cleanup)[p][c] ELSE q[p][c]]]

\* deployClassifier: processClassifier for every entry of Status.ClusterInfo,
\* in order.  Returns the new Status.ClusterInfo (the entries returned non-nil),
\* the queue, the clusters with an error, the clusters Deploy was called for,
\* and err: an error was seen or a returned entry is not Provisioned.  (No
\* cluster has two entries, so what processClassifier answers for one entry
\* does not depend on the Deploy calls made for the entries before it.)
deployClassifier(q, p, labels, infos) ==
    LET out(i) == processClassifier(q, p, labels, infos, infos[i].cluster)
        returned == SelectSeq([i \in DOMAIN infos |-> i], LAMBDA i : out(i).has)
        errors == {infos[i].cluster : i \in {j \in DOMAIN infos : out(j).err}}
        deploy == {infos[i].cluster : i \in {j \in DOMAIN infos : out(j).deploy}}
        allDeployed == \A i \in DOMAIN infos :
                          out(i).has => out(i).info.status = "Provisioned"
    IN [clusterInfo |-> [j \in DOMAIN returned |-> out(returned[j]).info],
        queue |-> DeployAll(q, p, deploy, FALSE),
        errors |-> errors,
        deploy |-> deploy,
        err |-> (errors # {} \/ ~allDeployed)]

\* A faulty removeClassifier: the Removed result is not looked at, the cleanup
\* is queued again.
removeClassifierQueuesAgain(q, p, c) ==
    LET status == convertResultStatus(GetResult(q, p, c, TRUE))
    IN IF isPaused(c) THEN [err |-> "", undeploy |-> FALSE]
       ELSE IF deployInProgress(q, p, c)
       THEN [err |-> "deploy in progress", undeploy |-> FALSE]
       ELSE IF status = "Provisioning"
       THEN [err |-> "feature is still being removed", undeploy |-> FALSE]
       ELSE [err |-> "cleanup request is queued", undeploy |-> TRUE]

\* removeClassifier: the error returned ("" = nil) and whether Deployer.Deploy
\* is called with cleanup set.
removeClassifier(q, p, c) ==
    LET status == convertResultStatus(GetResult(q, p, c, TRUE))
    IN IF isPaused(c) THEN [err |-> "", undeploy |-> FALSE]
       ELSE IF deployInProgress(q, p, c)
       THEN [err |-> "deploy in progress", undeploy |-> FALSE]
       ELSE IF status = "Provisioning"
       THEN [err |-> "feature is still being removed", undeploy |-> FALSE]
       ELSE IF status = "Removed" THEN [err |-> "", undeploy |-> FALSE]
       ELSE [err |-> "cleanup request is queued", undeploy |-> TRUE]

\* A faulty undeployClassifier: the loop ends at the first cluster whose
\* removeClassifier returns an error.
undeployClassifierFirstError(q, p, infos) ==
    LET existing == SelectSeq(infos, LAMBDA e : clusterExists[e.cluster])
        out(i) == removeClassifier(q, p, existing[i].cluster)
        failing == {i \in DOMAIN existing : out(i).err # ""}
        first == {i \in failing : \A j \in failing : i <= j}
        undeploy == {existing[i].cluster : i \in {j \in first : out(j).undeploy}}
        pending == SelectSeq([i \in DOMAIN existing |-> i], LAMBDA i : i \in first)
    IN [clusterInfo |-> [j \in DOMAIN pending |->
                            ClusterInfoOf(existing[pending[j]].cluster, "Removing",
                                          0, out(pending[j]).err)],
        queue |-> DeployAll(q, p, undeploy, TRUE),
        undeploy |-> undeploy,
        err |-> pending # <<>>]

\* undeployClassifier: removeClassifier for every cluster of Status.ClusterInfo
\* that exists, in order.  clusterInfo lists, as Removing, the clusters whose
\* removeClassifier returned an error; err says there is one.
undeployClassifier(q, p, infos) ==
    LET existing == SelectSeq(infos, LAMBDA e : clusterExists[e.cluster])
        out(i) == removeClassifier(q, p, existing[i].cluster)
        pending == SelectSeq([i \in DOMAIN existing |-> i],
                             LAMBDA i : out(i).err # "")
        undeploy == {existing[i].cluster :
                        i \in {j \in DOMAIN existing : out(j).undeploy}}
    IN [clusterInfo |-> [j \in DOMAIN pending |->
                            ClusterInfoOf(existing[pending[j]].cluster, "Removing",
                                          0, out(pending[j]).err)],
        queue |-> DeployAll(q, p, undeploy, TRUE),
        undeploy |-> undeploy,
        err |-> pending # <<>>]

\* --------------------------------------------------------------- Reconcile
PassOf(kind, p, deploy, undeploy, errors, requeueAfter, err, finalizerRemoved) ==
    [kind |-> kind, policy |-> p, deploy |-> deploy, undeploy |-> undeploy,
     errors |-> errors, requeueAfter |-> requeueAfter, err |-> err,
     finalizerRemoved |-> finalizerRemoved]

\* Reconcile of a live Classifier: reconcileNormal, then the scope is closed
\* and the status persisted.  The worker runs the pass alone (no other pass of
\* the same Classifier runs, and it takes Mux where the code does).  Every
\* value the pass computes is computed once, in the order of the code.
ReconcileNormal(p) ==
    /\ phase[p] = "live"
    /\ pc[p] = "idle"
    /\ Mux = NoPolicy
    /\ \E labels \in {specLabels[p]}, current \in {currentMatchingClusters(p)} :
       \E order \in Orders(current) :
       \E owner \in {handleLabelRegistrations(keyOwner, p, labels, current,
                                              StatusRefs(matchingStatuses[p]))} :
       \E statuses \in {matchingClusterStatus(owner, p, labels, order)} :
       \E upd \in {updateLabelsOnMatchingClusters(owner, p, labels, statuses,
                                                  clusterLabels)} :
       \E infos \in {updateClusterInfo(clusterInfo[p])} :
       \E maps \in {updateMaps(ClusterMap, ClassifierMap, p, infos)} :
       \E dep \in {deployClassifier(queue, p, labels, infos)} :
           /\ finalizer' = [finalizer EXCEPT ![p] = TRUE]
           /\ keyOwner' = owner
           /\ ClassifierSet' = updateClassifierSet(ClassifierSet, p,
                                    hasUnManaged(owner, p, labels, current))
           /\ AllClassifierSet' = AllClassifierSet \cup {p}
           /\ matchingStatuses' = [matchingStatuses EXCEPT ![p] = statuses]
           /\ clusterLabels' = upd.labels
           /\ IF upd.err
              THEN /\ UNCHANGED <<clusterInfo, ClusterMap, ClassifierMap, queue>>
                   /\ lastPass' = PassOf("normal", p, {}, {}, {}, 0, TRUE, FALSE)
              ELSE /\ clusterInfo' = [clusterInfo EXCEPT ![p] = dep.clusterInfo]
                   /\ ClusterMap' = maps.ClusterMap
                   /\ ClassifierMap' = maps.ClassifierMap
                   /\ queue' = dep.queue
                   /\ lastPass' = PassOf("normal", p, dep.deploy, {}, dep.errors,
                                         IF dep.err THEN normalRequeueAfter ELSE 0,
                                         FALSE, FALSE)
    /\ UNCHANGED <<collectVars, callVars, ClassifierReportMode, access>>
    /\ UNCHANGED <<phase, specLabels, fleetVars, reports, Mux, pc, scope, changes>>

\* Reconcile of a Classifier marked for deletion: reconcileDelete.  Once the
\* finalizer is removed the Classifier object is gone.
ReconcileDelete(p) ==
    /\ phase[p] = "deleting"
    /\ pc[p] = "idle"
    /\ Mux = NoPolicy
    /\ \E owner \in {RemoveAll(keyOwner, p, StatusRefs(matchingStatuses[p]))} :
       \E un \in {undeployClassifier(queue, p, clusterInfo[p])} :
          /\ keyOwner' = owner
          /\ ClassifierSet' = ClassifierSet \ {p}
          /\ AllClassifierSet' = AllClassifierSet \ {p}
          /\ queue' = un.queue
          /\ IF un.err
             THEN /\ matchingStatuses' = [matchingStatuses EXCEPT ![p] =
                        [i \in DOMAIN un.clusterInfo |->
                            [ZeroStatus EXCEPT !.clusterRef = un.clusterInfo[i].cluster]]]
                  /\ lastPass' = PassOf("delete", p, {}, un.undeploy,
                                        InfoClusters(un.clusterInfo),
                                        deleteRequeueAfter, FALSE, FALSE)
                  /\ UNCHANGED <<phase, finalizer, clusterInfo, reports>>
             ELSE /\ reports' = [reports EXCEPT ![p] = [c \in Clusters |-> FALSE]]
                  /\ finalizer' = [finalizer EXCEPT ![p] = FALSE]
                  /\ phase' = [phase EXCEPT ![p] = "absent"]
                  /\ clusterInfo' = [clusterInfo EXCEPT ![p] = <<>>]
                  /\ matchingStatuses' = [matchingStatuses EXCEPT ![p] = <<>>]
                  /\ lastPass' = PassOf("delete", p, {}, un.undeploy, {}, 0, FALSE, TRUE)
    /\ UNCHANGED <<collectVars, callVars, ClassifierReportMode, access>>
    /\ UNCHANGED <<specLabels, fleetVars, clusterLabels, indexVars, pc, scope, changes>>

\* ----------------------------------------------- the operator (environment)
\* A Classifier is deleted: it stays, marked for deletion, while it carries the
\* finalizer.
DeleteClassifier(p) ==
    /\ phase[p] = "live"
    /\ phase' = [phase EXCEPT ![p] = IF finalizer[p] THEN "deleting" ELSE "absent"]
    /\ clusterInfo' = [clusterInfo EXCEPT ![p] = IF finalizer[p] THEN @ ELSE <<>>]
    /\ matchingStatuses' = [matchingStatuses EXCEPT ![p] =
                                IF finalizer[p] THEN @ ELSE <<>>]

\* The Spec of a Classifier is edited: a label is added or dropped.
EditSpec(p) ==
    /\ phase[p] = "live"
    /\ \E k \in Keys :
          specLabels' = [specLabels EXCEPT ![p] =
                            IF k \in @ THEN @ \ {k} ELSE @ \cup {k}]

\* ------------------------------------------------------------- SpecDeploy
\* the one Classifier whose deployment this specification follows
DeployPolicies == {p \in Policies : \A q \in Policies : p <= q}

DeployNormal ==
    \E p \in DeployPolicies : ReconcileNormal(p)

DeployDelete ==
    \E p \in DeployPolicies : ReconcileDelete(p)

\* A Classifier is created.
DeployCreateClassifier ==
    /\ changes < MaxChanges
    /\ changes' = changes + 1
    /\ \E p \in DeployPolicies :
          /\ phase[p] = "absent"
          /\ phase' = [phase EXCEPT ![p] = "live"]
          /\ \E labels \in SUBSET Keys : specLabels' = [specLabels EXCEPT ![p] = labels]
          /\ UNCHANGED finalizer
    /\ UNCHANGED <<collectVars, callVars, ClassifierReportMode, access>>
    /\ UNCHANGED <<fleetVars, labelVars, clusterInfo, indexVars, setVars, queue, pc,
                   scope, lastPass>>

DeployDeleteClassifier ==
    /\ changes < MaxChanges
    /\ changes' = changes + 1
    /\ \E p \in DeployPolicies : DeleteClassifier(p)
    /\ UNCHANGED <<collectVars, callVars, ClassifierReportMode, access>>
    /\ UNCHANGED <<finalizer, specLabels, fleetVars, clusterLabels, reports, keyOwner,
                   indexVars, setVars, queue, pc, scope, lastPass>>

DeployEditSpec ==
    /\ changes < MaxChanges
    /\ changes' = changes + 1
    /\ \E p \in DeployPolicies : EditSpec(p)
    /\ UNCHANGED <<collectVars, callVars, ClassifierReportMode, access>>
    /\ UNCHANGED <<phase, finalizer, fleetVars, labelVars, clusterInfo, indexVars,
                   setVars, queue, pc, scope, lastPass>>

\* A Cluster object is created.
DeployCreateCluster ==
    /\ changes < MaxChanges
    /\ changes' = changes + 1
    /\ \E c \in Clusters :
          /\ ~clusterExists[c]
          /\ clusterExists' = [clusterExists EXCEPT ![c] = TRUE]
          /\ clusterPaused' = [clusterPaused EXCEPT ![c] = FALSE]
          /\ clusterReady' = [clusterReady EXCEPT ![c] = FALSE]
          /\ clusterLabels' = [clusterLabels EXCEPT ![c] = [k \in Keys |-> NoPolicy]]
    /\ UNCHANGED <<clusterDeleting, collectVars, callVars, ClassifierReportMode, access>>
    /\ UNCHANGED <<objectVars, reports, matchingStatuses, keyOwner, clusterInfo,
                   indexVars, setVars, queue, pc, scope, lastPass>>

\* A Cluster object is deleted.
DeployDeleteCluster ==
    /\ changes < MaxChanges
    /\ changes' = changes + 1
    /\ \E c \in Clusters :
          /\ clusterExists[c]
          /\ clusterExists' = [clusterExists EXCEPT ![c] = FALSE]
          /\ clusterPaused' = [clusterPaused EXCEPT ![c] = FALSE]
          /\ clusterReady' = [clusterReady EXCEPT ![c] = FALSE]
          /\ clusterLabels' = [clusterLabels EXCEPT ![c] = [k \in Keys |-> NoPolicy]]
    /\ UNCHANGED <<clusterDeleting, collectVars, callVars, ClassifierReportMode, access>>
    /\ UNCHANGED <<objectVars, reports, matchingStatuses, keyOwner, clusterInfo,
                   indexVars, setVars, queue, pc, scope, lastPass>>

\* A Cluster is paused or unpaused.
DeploySetPaused ==
    /\ changes < MaxChanges
    /\ changes' = changes + 1
    /\ \E c \in Clusters :
          /\ clusterExists[c]
          /\ clusterPaused' = [clusterPaused EXCEPT ![c] = ~@]
    /\ UNCHANGED <<collectVars, callVars, ClassifierReportMode, access>>
    /\ UNCHANGED <<objectVars, clusterExists, clusterReady, clusterDeleting, labelVars,
                   clusterInfo,
                   indexVars, setVars, queue, pc, scope, lastPass>>

\* A Cluster becomes ready to be configured, or stops being so.
DeploySetReady ==
    /\ changes < MaxChanges
    /\ changes' = changes + 1
    /\ \E c \in Clusters :
          /\ clusterExists[c]
          /\ clusterReady' = [clusterReady EXCEPT ![c] = ~@]
    /\ UNCHANGED <<collectVars, callVars, ClassifierReportMode, access>>
    /\ UNCHANGED <<objectVars, clusterExists, clusterPaused, clusterDeleting, labelVars,
                   clusterInfo,
                   indexVars, setVars, queue, pc, scope, lastPass>>

DeployQueueDone ==
    /\ \E p \in DeployPolicies, c \in Clusters, cleanup \in BOOLEAN :
          QueueComplete(p, c, cleanup, TRUE)
    /\ UNCHANGED <<collectVars, callVars, ClassifierReportMode, access>>
    /\ UNCHANGED <<objectVars, fleetVars, labelVars, clusterInfo, indexVars, setVars,
                   pc, scope, lastPass, changes>>

DeployQueueFailed ==
    /\ changes < MaxChanges
    /\ changes' = changes + 1
    /\ \E p \in DeployPolicies, c \in Clusters, cleanup \in BOOLEAN :
          QueueComplete(p, c, cleanup, FALSE)
    /\ UNCHANGED <<collectVars, callVars, ClassifierReportMode, access>>
    /\ UNCHANGED <<objectVars, fleetVars, labelVars, clusterInfo, indexVars, setVars,
                   pc, scope, lastPass>>

\* A result leaves the result store (the process restarts).
DeployQueueForget ==
    /\ changes < MaxChanges
    /\ changes' = changes + 1
    /\ \E p \in DeployPolicies, c \in Clusters, cleanup \in BOOLEAN :
          /\ queue[p][c][cleanup] \in {"done", "failed"}
          /\ queue' = [queue EXCEPT ![p][c][cleanup] = "none"]
    /\ UNCHANGED <<collectVars, callVars, ClassifierReportMode, access>>
    /\ UNCHANGED <<objectVars, fleetVars, labelVars, clusterInfo, indexVars, setVars,
                   pc, scope, lastPass>>

NextDeploy ==
    \/ DeployNormal
    \/ DeployDelete
    \/ DeployCreateClassifier
    \/ DeployDeleteClassifier
    \/ DeployEditSpec
    \/ DeployCreateCluster
    \/ DeployDeleteCluster
    \/ DeploySetPaused
    \/ DeploySetReady
    \/ DeployQueueDone
    \/ DeployQueueFailed
    \/ DeployQueueForget

SpecDeploy == Init /\ [][NextDeploy]_vars

\* The same controller in front of a fleet that is fixed: no Cluster is
\* created or deleted and none stops being ready.
NextConverge ==
    \/ DeployNormal
    \/ DeployDelete
    \/ DeployCreateClassifier
    \/ DeployDeleteClassifier
    \/ DeployEditSpec
    \/ DeploySetPaused
    \/ DeployQueueDone
    \/ DeployQueueFailed
    \/ DeployQueueForget

\* The controller keeps reconciling (a pass that is not done requeues itself,
\* and a change of the Classifier or of a Cluster enqueues a pass) and the
\* deployer's workers keep completing the requests they hold.  The operator
\* and the fleet make finitely many changes, and finitely many requests fail.
SpecDeployFair ==
    /\ Init
    /\ [][NextConverge]_vars
    /\ WF_vars(DeployNormal)
    /\ WF_vars(DeployDelete)
    /\ WF_vars(DeployQueueDone)

\* the entries of a Status.ClusterInfo list that name cluster c
EntriesOf(infos, c) == {i \in DOMAIN infos : infos[i].cluster = c}

\* processClassifier is called for (p, c) by the pass about to run and reaches
\* its question to the queue: c is listed after updateClusterInfo, exists, is
\* not paused and is ready.
ReachesQueueOnDeploy(p, c) ==
    /\ c \in InfoClusters(updateClusterInfo(clusterInfo[p]))
    /\ clusterExists[c]
    /\ canProceed(c)

\* removeClassifier is called for (p, c) by the pass about to run and reaches
\* its question to the queue: c is listed, exists and is not paused.
ReachesQueueOnUndeploy(p, c) ==
    /\ c \in InfoClusters(clusterInfo[p])
    /\ clusterExists[c]
    /\ ~isPaused(c)

\* C2: a reconcileNormal pass whose processClassifier finds, for (p, c), an
\* undeploy in progress on the queue gets an error for c, calls Deploy for no
\* request of c (the deploy request of the pair is left as it was), ends with
\* RequeueAfter 20s and a nil error, and leaves no Failed entry for c.
C2_DeployRefusedDuringCleanup ==
    [][\A p \in Policies, c \in Clusters :
        (/\ ReconcileNormal(p)
         /\ ReachesQueueOnDeploy(p, c)
         /\ IsInProgress(queue, p, c, TRUE))
        => (/\ c \in lastPass'.errors
            /\ c \notin lastPass'.deploy
            /\ queue'[p][c] = queue[p][c]
            /\ lastPass'.requeueAfter = normalRequeueAfter
            /\ ~lastPass'.err
            /\ \A i \in EntriesOf(clusterInfo'[p], c) :
                  clusterInfo'[p][i].status # "Failed")]_vars

\* a pass has just refused to deploy to a ready, unpaused cluster whose
\* undeploy is still in progress
C2_Witness ==
    \E p \in Policies, c \in Clusters :
        /\ lastPass.kind = "normal" /\ lastPass.policy = p
        /\ c \in lastPass.errors /\ c \notin lastPass.deploy
        /\ lastPass.requeueAfter = normalRequeueAfter
        /\ queue[p][c][TRUE] = "inprogress"
        /\ queue[p][c][FALSE] # "inprogress"
        /\ clusterExists[c] /\ canProceed(c)
        /\ phase[p] = "live"
        /\ EntriesOf(clusterInfo[p], c) = {}

\* C3: a reconcileDelete pass whose removeClassifier finds, for (p, c), a deploy
\* in progress on the queue gets an error for c and dispatches no undeploy for
\* c; and no pass dispatches an undeploy of a pair whose deploy is in progress.
C3_UndeployRefusedDuringDeploy ==
    [][\A p \in Policies, c \in Clusters :
        /\ (/\ ReconcileDelete(p)
            /\ ReachesQueueOnUndeploy(p, c)
            /\ IsInProgress(queue, p, c, FALSE))
           => (/\ c \in lastPass'.errors
               /\ c \notin lastPass'.undeploy
               /\ queue'[p][c] = queue[p][c]
               /\ finalizer'[p])
        /\ (ReconcileDelete(p) /\ c \in lastPass'.undeploy)
           => ~IsInProgress(queue, p, c, FALSE)]_vars

\* a delete pass has just refused to undeploy from an unpaused cluster whose
\* deploy is still in progress
C3_Witness ==
    \E p \in Policies, c \in Clusters :
        /\ lastPass.kind = "delete" /\ lastPass.policy = p
        /\ c \in lastPass.errors /\ c \notin lastPass.undeploy
        /\ queue[p][c][FALSE] = "inprogress"
        /\ queue[p][c][TRUE] = "none"
        /\ clusterExists[c] /\ ~isPaused(c)
        /\ phase[p] = "deleting" /\ finalizer[p]

\* (p, c) is recorded Provisioned with the hash of the current Spec
ProvisionedWithCurrentHash(p, c) ==
    \E i \in EntriesOf(clusterInfo[p], c) :
        /\ clusterInfo[p][i].status = "Provisioned"
        /\ clusterInfo[p][i].hash = currentHashOfLabels(specLabels[p])

\* C4: once the operator and the fleet have stopped changing anything and the
\* queue completes what it holds, the passes reach a point after which none
\* calls Deployer.Deploy; and a pass never dispatches a deploy for a pair
\* recorded Provisioned with the current hash.
C4_Convergence ==
    /\ <>[](lastPass.deploy = {})
    /\ [][\A p \in Policies, c \in Clusters :
            (ReconcileNormal(p) /\ ProvisionedWithCurrentHash(p, c))
            => c \notin lastPass'.deploy]_vars

\* a pass over a pair recorded Provisioned with the current hash, with no
\* result left on the queue, has dispatched nothing
C4_Witness ==
    \E p \in Policies, c \in Clusters :
        /\ lastPass.kind = "normal" /\ lastPass.policy = p
        /\ lastPass.deploy = {} /\ lastPass.errors = {}
        /\ lastPass.requeueAfter = 0
        /\ ProvisionedWithCurrentHash(p, c)
        /\ queue[p][c][FALSE] = "none"
        /\ clusterExists[c] /\ canProceed(c)
        /\ phase[p] = "live"

\* C5: a reconcileDelete pass removes the finalizer only if every entry of
\* Status.ClusterInfo names a cluster that no longer exists or a pair whose
\* teardown the queue reports Removed.
C5_FinalizerOnlyAfterRemoved ==
    [][\A p \in Policies :
        (ReconcileDelete(p) /\ finalizer[p] /\ ~finalizer'[p])
        => \A i \in DOMAIN clusterInfo[p] :
              \/ ~clusterExists[clusterInfo[p][i].cluster]
              \/ GetResult(queue, p, clusterInfo[p][i].cluster, TRUE) = "Removed"]_vars

\* ------------------------------------------------------------- SpecLabels
\* Workers reconcile different Classifiers at the same time.  A pass is cut
\* where another worker can see what it has done so far: after the key manager
\* and the reconciler's sets were updated (in memory), after the API calls on
\* the Clusters and the deployer, and when the scope is closed and the status
\* patched.

\* Reconcile up to the end of updateMatchingClustersAndRegistrations: the
\* Classifier is fetched (the pass works on that Spec), the finalizer added,
\* the reports listed, the registrations handled, the status list built in the
\* scope and ClassifierSet updated.
LabelsBegin(p) ==
    /\ phase[p] = "live"
    /\ pc[p] = "idle"
    /\ Mux = NoPolicy
    /\ \E labels \in {specLabels[p]}, current \in {currentMatchingClusters(p)} :
       \E order \in Orders(current) :
       \E owner \in {handleLabelRegistrations(keyOwner, p, labels, current,
                                              StatusRefs(matchingStatuses[p]))} :
           /\ finalizer' = [finalizer EXCEPT ![p] = TRUE]
           /\ keyOwner' = owner
           /\ ClassifierSet' = updateClassifierSet(ClassifierSet, p,
                                    hasUnManaged(owner, p, labels, current))
           /\ AllClassifierSet' = AllClassifierSet \cup {p}
           /\ scope' = [scope EXCEPT ![p] =
                  [NoScope EXCEPT !.labels = labels, !.current = current,
                                  !.clusterInfo = clusterInfo[p],
                                  !.matching = matchingClusterStatus(owner, p, labels,
                                                                     order)]]
    /\ pc' = [pc EXCEPT ![p] = "labels"]
    /\ UNCHANGED <<collectVars, callVars, ClassifierReportMode, access>>
    /\ UNCHANGED <<phase, specLabels, fleetVars, clusterLabels, reports,
                   matchingStatuses, clusterInfo, indexVars, queue, lastPass, changes>>

\* reconcileNormal from updateLabelsOnMatchingClusters to its return: the
\* labels are set on the clusters of the scope's status list; unless that
\* failed, updateClusterInfo, updateMaps and deployClassifier follow.
LabelsUpdate(p) ==
    /\ pc[p] = "labels"
    /\ Mux = NoPolicy
    /\ \E upd \in {updateLabelsOnMatchingClusters(keyOwner, p, scope[p].labels,
                                                  scope[p].matching, clusterLabels)} :
       \E infos \in {updateClusterInfo(scope[p].clusterInfo)} :
       \E maps \in {updateMaps(ClusterMap, ClassifierMap, p, infos)} :
       \E dep \in {deployClassifier(queue, p, scope[p].labels, infos)} :
           /\ clusterLabels' = upd.labels
           /\ IF upd.err
              THEN /\ scope' = [scope EXCEPT ![p].err = TRUE]
                   /\ UNCHANGED <<ClusterMap, ClassifierMap, queue>>
              ELSE /\ scope' = [scope EXCEPT ![p].clusterInfo = dep.clusterInfo,
                                             ![p].requeueAfter =
                                                 IF dep.err THEN normalRequeueAfter
                                                 ELSE 0]
                   /\ ClusterMap' = maps.ClusterMap
                   /\ ClassifierMap' = maps.ClassifierMap
                   /\ queue' = dep.queue
    /\ pc' = [pc EXCEPT ![p] = "close"]
    /\ UNCHANGED <<collectVars, callVars, ClassifierReportMode, access>>
    /\ UNCHANGED <<objectVars, fleetVars, reports, matchingStatuses, keyOwner,
                   clusterInfo, Mux, setVars, lastPass, changes>>

\* classifierScope.Close: the status of the scope is patched.
LabelsClose(p) ==
    /\ pc[p] = "close"
    /\ matchingStatuses' = [matchingStatuses EXCEPT ![p] = scope[p].matching]
    /\ clusterInfo' = [clusterInfo EXCEPT ![p] = scope[p].clusterInfo]
    /\ lastPass' = PassOf("normal", p, {}, {}, {}, scope[p].requeueAfter,
                          scope[p].err, FALSE)
    /\ scope' = [scope EXCEPT ![p] = NoScope]
    /\ pc' = [pc EXCEPT ![p] = "idle"]
    /\ UNCHANGED <<collectVars, callVars, ClassifierReportMode, access>>
    /\ UNCHANGED <<objectVars, fleetVars, clusterLabels, reports, keyOwner, indexVars,
                   setVars, queue, changes>>

\* The classifier agent of a cluster reports that the cluster matches, or
\* that it matches no more.
LabelsSetReport ==
    /\ changes < MaxLabelChanges
    /\ changes' = changes + 1
    /\ \E p \in Policies, c \in Clusters :
          /\ phase[p] = "live"
          /\ reports' = [reports EXCEPT ![p][c] = ~@]
    /\ UNCHANGED <<collectVars, callVars, ClassifierReportMode, access>>
    /\ UNCHANGED <<objectVars, fleetVars, clusterLabels, matchingStatuses, keyOwner,
                   clusterInfo, indexVars, setVars, queue, pc, scope, lastPass>>

LabelsEditSpec ==
    /\ changes < MaxLabelChanges
    /\ changes' = changes + 1
    /\ \E p \in Policies : EditSpec(p)
    /\ UNCHANGED <<collectVars, callVars, ClassifierReportMode, access>>
    /\ UNCHANGED <<phase, finalizer, fleetVars, labelVars, clusterInfo, indexVars,
                   setVars, queue, pc, scope, lastPass>>

NextLabels ==
    \/ \E p \in Policies : LabelsBegin(p)
    \/ \E p \in Policies : LabelsUpdate(p)
    \/ \E p \in Policies : LabelsClose(p)
    \/ LabelsSetReport
    \/ LabelsEditSpec

SpecLabels == Init /\ [][NextLabels]_vars

\* C6: at every moment, for every cluster c and key k, at most one
\* classifier's persisted Status.MachingClusterStatuses lists k as a managed
\* label of c.
C6_OneManagerInStatus ==
    \A c \in Clusters, k \in Keys :
        Cardinality({p \in Policies : \E i \in DOMAIN matchingStatuses[p] :
                        /\ matchingStatuses[p][i].clusterRef = c
                        /\ k \in matchingStatuses[p][i].managed}) <= 1

\* C7: every unmanaged label of a persisted Status.MachingClusterStatuses entry
\* has a FailureMessage, which names the classifier that owns the key on that
\* cluster now.
C7_UnManagedNamesOwner ==
    \A p \in Policies : \A i \in DOMAIN matchingStatuses[p] :
        \A u \in matchingStatuses[p][i].unmanaged :
            /\ u.msg # NoPolicy
            /\ u.msg = GetManagerForKey(keyOwner, matchingStatuses[p][i].clusterRef,
                                        u.key)

\* C8: when updateMatchingClustersAndRegistrations is done, the status list of
\* the scope has one entry for every cluster whose report matches, with the
\* labels classified for that cluster, and no other entry.
C8_OneEntryPerMatchingCluster ==
    \A p \in Policies :
        pc[p] = "labels" =>
            /\ Len(scope[p].matching) = Cardinality(scope[p].current)
            /\ StatusRefs(scope[p].matching) = scope[p].current
            /\ \A i \in DOMAIN scope[p].matching :
                  LET e == scope[p].matching[i]
                  IN e.clusterRef # ZeroRef =>
                        /\ e.managed = classifyLabels(keyOwner, p, scope[p].labels,
                                                      e.clusterRef).managed
                        /\ e.unmanaged = classifyLabels(keyOwner, p, scope[p].labels,
                                                        e.clusterRef).unmanaged

\* C9: the label step of a pass of p changes label k of cluster c only if c is
\* in the status list of the pass, its report matched when the pass read the
\* reports, k is a label of the Spec and the key manager lets p manage k on c;
\* the label then carries the value of p.
C9_LabelsWrittenOnlyIfAllowed ==
    [][\A p \in Policies :
        LabelsUpdate(p) =>
            \A c \in Clusters, k \in Keys :
                clusterLabels'[c][k] # clusterLabels[c][k] =>
                    /\ c \in StatusRefs(scope[p].matching)
                    /\ c \in scope[p].current
                    /\ k \in scope[p].labels
                    /\ CanManageLabel(keyOwner, p, c, k)
                    /\ clusterLabels'[c][k] = p]_vars

\* the owner q of a key has written its value on a matching cluster, and the
\* label step of p has then run on that cluster, which p matches too: the label
\* still carries the value of q
C9_Witness ==
    \E p, q \in Policies, c \in Clusters, k \in Keys :
        /\ p # q
        /\ pc[p] = "close" /\ ~scope[p].err
        /\ scope[p].current = {c} /\ k \in scope[p].labels
        /\ keyOwner[c][k] = q
        /\ clusterLabels[c][k] = q

\* C10: when every matching cluster exists, the label step of a pass of p leaves
\* on every matching cluster every label of the Spec that p owns there.
C10_AllOwnedLabelsApplied ==
    [][\A p \in Policies :
        (LabelsUpdate(p) /\ \A c \in scope[p].current : clusterExists[c])
        => \A c \in scope[p].current, k \in scope[p].labels :
              CanManageLabel(keyOwner, p, c, k) => clusterLabels'[c][k] = p]_vars

\* ------------------------------------------------- SpecIndex: index passes
\* A worker reaches the updateMaps call of reconcileNormal.  What the index
\* reads of the pass is the scope's Status.ClusterInfo, which the earlier steps
\* left with an entry for any set of clusters (the persisted entries plus the
\* clusters that exist now).
IndexBegin(p) ==
    /\ pc[p] = "idle"
    /\ phase[p] = "live"
    /\ \E S \in SUBSET Clusters :
          scope' = [scope EXCEPT ![p] =
              [NoScope EXCEPT !.clusterInfo =
                  [i \in DOMAIN SetToSeq(S) |-> NewClusterInfo(SetToSeq(S)[i])]]]
    /\ pc' = [pc EXCEPT ![p] = "updateMaps"]
    /\ UNCHANGED <<collectVars, callVars, ClassifierReportMode, access>>
    /\ UNCHANGED <<objectVars, fleetVars, labelVars, clusterInfo, indexVars, setVars,
                   queue, lastPass, changes>>

IndexLock(p) ==
    /\ UpdateMapsLock(p)
    /\ UNCHANGED <<collectVars, callVars, ClassifierReportMode, access>>
    /\ UNCHANGED <<objectVars, fleetVars, labelVars, clusterInfo, ClusterMap,
                   ClassifierMap, setVars, queue, lastPass, changes>>

IndexInsert(p) ==
    /\ UpdateMapsInsert(p)
    /\ UNCHANGED <<collectVars, callVars, ClassifierReportMode, access>>
    /\ UNCHANGED <<objectVars, fleetVars, labelVars, clusterInfo, ClassifierMap, Mux,
                   setVars, queue, scope, lastPass, changes>>

IndexErase(p) ==
    /\ UpdateMapsErase(p)
    /\ UNCHANGED <<collectVars, callVars, ClassifierReportMode, access>>
    /\ UNCHANGED <<objectVars, fleetVars, labelVars, clusterInfo, ClassifierMap, Mux,
                   setVars, queue, scope, lastPass, changes>>

\* updateMaps returns; the rest of the pass does not touch the index.
IndexAssign(p) ==
    /\ UpdateMapsAssign(p)
    /\ scope' = [scope EXCEPT ![p] = NoScope]
    /\ UNCHANGED <<collectVars, callVars, ClassifierReportMode, access>>
    /\ UNCHANGED <<objectVars, fleetVars, labelVars, clusterInfo, ClusterMap,
                   setVars, queue, lastPass, changes>>

NextIndex ==
    \/ \E p \in Policies : IndexBegin(p)
    \/ \E p \in Policies : IndexLock(p)
    \/ \E p \in Policies : IndexInsert(p)
    \/ \E p \in Policies : IndexErase(p)
    \/ \E p \in Policies : IndexAssign(p)

SpecIndex == Init /\ [][NextIndex]_vars

\* -------------------------------------------------------------- properties

\* C1: whenever the reconciler mutex is free (no worker is inside updateMaps),
\* classifier p is in ClusterMap[c] exactly when cluster c is in ClassifierMap[p],
\* for every classifier and cluster, under every interleaving of the workers.
C1_IndexMirror ==
    Mux = NoPolicy =>
        \A p \in Policies : \A c \in Clusters :
            (p \in ClusterMap[c]) <=> (c \in ClassifierMap[p])

\* C1 witness: with the mutex free, a classifier has been removed from the
\* reverse set of a cluster it no longer targets while another classifier is
\* still indexed, and a worker is waiting to enter updateMaps.
C1_Witness ==
    /\ Mux = NoPolicy
    /\ \E p \in Policies, q \in Policies, c \in Clusters, d \in Clusters :
          /\ p # q /\ c # d
          /\ ClassifierMap[p] = {d}
          /\ c \in ClassifierMap[q]
          /\ ClusterMap[c] = {q}
          /\ pc[q] = "updateMaps"
          /\ scope[q].clusterInfo = <<>>
          /\ pc[p] = "idle"

\* --------------------------------- SpecRegister: the key manager, call by call
\* The passes of SpecLabels up to the status list, with every call to the key
\* manager a step of its own: the key manager serves one call at a time and the
\* calls of workers reconciling different Classifiers interleave.  A worker
\* keeps the calls it still has to make (calls) and those it has made (log).

Call(op, c) == [op |-> op, cluster |-> c]

\* A faulty loop of handleLabelRegistrations: the labels of a cluster are
\* registered before its stale registrations are removed.
registrationCallsSwapped(order, gone) ==
    [i \in 1..(2 * Len(order)) |->
        IF i % 2 = 1 THEN Call("RegisterClassifierForLabels", order[(i + 1) \div 2])
        ELSE Call("RemoveStaleRegistrations", order[i \div 2])]
    \o [i \in DOMAIN gone |-> Call("RemoveAllRegistrations", gone[i])]

\* handleLabelRegistrations: the calls it makes, in order.  For every matching
\* cluster, in the order of the map, RemoveStaleRegistrations and then
\* RegisterClassifierForLabels; then RemoveAllRegistrations for every cluster
\* of the old status that matches no more.
registrationCalls(order, gone) ==
    [i \in 1..(2 * Len(order)) |->
        IF i % 2 = 1 THEN Call("RemoveStaleRegistrations", order[(i + 1) \div 2])
        ELSE Call("RegisterClassifierForLabels", order[i \div 2])]
    \o [i \in DOMAIN gone |-> Call("RemoveAllRegistrations", gone[i])]

\* Reconcile up to the call of handleLabelRegistrations: the reports are
\* listed and the two maps built.
RegisterBegin(p) ==
    /\ phase[p] = "live"
    /\ pc[p] = "idle"
    /\ \E labels \in {specLabels[p]}, current \in {currentMatchingClusters(p)} :
       \E order \in Orders(current) :
       \E gone \in Orders(StatusRefs(matchingStatuses[p]) \ current) :
           scope' = [scope EXCEPT ![p] =
                        [NoScope EXCEPT !.labels = labels, !.current = current,
                                        !.calls = registrationCalls(order, gone)]]
    /\ pc' = [pc EXCEPT ![p] = "register"]
    /\ UNCHANGED <<collectVars, callVars, ClassifierReportMode, access>>
    /\ UNCHANGED <<objectVars, fleetVars, labelVars, clusterInfo, indexVars, setVars,
                   queue, lastPass, changes>>

\* The next call of handleLabelRegistrations is served by the key manager.
RegisterCall(p) ==
    /\ pc[p] = "register"
    /\ scope[p].calls # <<>>
    /\ LET call == Head(scope[p].calls)
           labels == scope[p].labels
       IN keyOwner' =
             CASE call.op = "RemoveStaleRegistrations" ->
                     RemoveStaleRegistrations(keyOwner, p, call.cluster, labels)
               [] call.op = "RegisterClassifierForLabels" ->
                     RegisterClassifierForLabels(keyOwner, p, call.cluster, labels)
               [] OTHER -> RemoveAllRegistrations(keyOwner, p, call.cluster)
    /\ scope' = [scope EXCEPT ![p].calls = Tail(@),
                              ![p].log = Append(@, Head(scope[p].calls))]
    /\ UNCHANGED <<collectVars, callVars, ClassifierReportMode, access>>
    /\ UNCHANGED <<objectVars, fleetVars, clusterLabels, reports, matchingStatuses,
                   clusterInfo, indexVars, setVars, queue, pc, lastPass, changes>>

\* handleLabelRegistrations has returned: the labels are classified for every
\* matching cluster, in the order of the map, and the status list is built.
RegisterClassify(p) ==
    /\ pc[p] = "register"
    /\ scope[p].calls = <<>>
    /\ \E order \in Orders(scope[p].current) :
          scope' = [scope EXCEPT
                       ![p].matching = matchingClusterStatus(keyOwner, p,
                                                             scope[p].labels, order),
                       ![p].log = @ \o [i \in DOMAIN order |->
                                           Call("classifyLabels", order[i])]]
    /\ ClassifierSet' = updateClassifierSet(ClassifierSet, p,
                            hasUnManaged(keyOwner, p, scope[p].labels,
                                         scope[p].current))
    /\ AllClassifierSet' = AllClassifierSet \cup {p}
    /\ pc' = [pc EXCEPT ![p] = "close"]
    /\ UNCHANGED <<collectVars, callVars, ClassifierReportMode, access>>
    /\ UNCHANGED <<objectVars, fleetVars, labelVars, clusterInfo, indexVars, queue,
                   lastPass, changes>>

\* classifierScope.Close: the status list of the scope is patched.
RegisterClose(p) ==
    /\ pc[p] = "close"
    /\ matchingStatuses' = [matchingStatuses EXCEPT ![p] = scope[p].matching]
    /\ scope' = [scope EXCEPT ![p] = NoScope]
    /\ pc' = [pc EXCEPT ![p] = "idle"]
    /\ UNCHANGED <<collectVars, callVars, ClassifierReportMode, access>>
    /\ UNCHANGED <<objectVars, fleetVars, clusterLabels, reports, keyOwner, clusterInfo,
                   indexVars, setVars, queue, lastPass, changes>>

NextRegister ==
    \/ \E p \in Policies : RegisterBegin(p)
    \/ \E p \in Policies : RegisterCall(p)
    \/ \E p \in Policies : RegisterClassify(p)
    \/ \E p \in Policies : RegisterClose(p)
    \/ LabelsSetReport
    \/ LabelsEditSpec

SpecRegister == Init /\ [][NextRegister]_vars

\* the positions of a call in the log of a worker
Positions(log, op, c) == {i \in DOMAIN log : log[i] = Call(op, c)}

\* C11: in every pass, for every matching cluster c, no label is registered
\* for c before the stale registrations of c are removed, and no label is
\* classified before both calls are made for every matching cluster; when the
\* status list is built both calls have been made for every matching cluster.
C11_RemoveStaleThenRegisterThenClassify ==
    \A p \in Policies :
        LET log == scope[p].log
        IN /\ \A c \in Clusters :
                \A i \in Positions(log, "RegisterClassifierForLabels", c) :
                    \E j \in Positions(log, "RemoveStaleRegistrations", c) : j < i
           /\ \A d \in Clusters : \A i \in Positions(log, "classifyLabels", d) :
                \A c \in scope[p].current :
                    /\ \E j \in Positions(log, "RemoveStaleRegistrations", c) : j < i
                    /\ \E j \in Positions(log, "RegisterClassifierForLabels", c) : j < i
           /\ pc[p] = "close" =>
                \A c \in scope[p].current :
                    Positions(log, "classifyLabels", c) # {}

\* a pass over two matching clusters has built its status list while the other
\* classifier is in the middle of its own calls
C11_Witness ==
    \E p, q \in Policies :
        /\ p # q
        /\ pc[p] = "close"
        /\ Cardinality(scope[p].current) = 2
        /\ pc[q] = "register"
        /\ scope[q].log # <<>> /\ scope[q].calls # <<>>

\* C12: when the status list of a pass of p is built, RemoveAllRegistrations
\* has been called for every cluster on which p held a registration and that
\* matches no more: p owns no key on a cluster that is not matching in the
\* pass, whatever the number of clusters that matched before.
C12_NoClaimOnUnmatchedCluster ==
    \A p \in Policies :
        pc[p] = "close" =>
            \A c \in Clusters \ scope[p].current :
                /\ \A k \in Keys : ~CanManageLabel(keyOwner, p, c, k)
                /\ (c \in StatusRefs(matchingStatuses[p]) =>
                        Positions(scope[p].log, "RemoveAllRegistrations", c) # {})

\* ------------------------------------------ properties of the deploy step

\* the entries of a Status.ClusterInfo list for cluster c
EntrySet(infos, c) == {infos[i] : i \in EntriesOf(infos, c)}

\* C13: a reconcileNormal pass that finds cluster c paused or not ready calls
\* Deploy for no request of (p, c), and the Status.ClusterInfo entry of c
\* (status, hash, failure message) is after the pass what it was before.
C13_PausedOrNotReadyIsNoOp ==
    [][\A p \in Policies, c \in Clusters :
        (/\ ReconcileNormal(p)
         /\ EntriesOf(clusterInfo[p], c) # {}
         /\ clusterExists[c]
         /\ ~canProceed(c))
        => /\ c \notin lastPass'.deploy
           /\ queue'[p][c] = queue[p][c]
           /\ EntrySet(clusterInfo'[p], c) = EntrySet(clusterInfo[p], c)]_vars

\* what processClassifier reads for (p, c) in the pass about to run: the hash
\* and status recorded for c, and the hash of the Spec
RecordedFor(p, c) ==
    getClassifierInClusterHashAndStatus(updateClusterInfo(clusterInfo[p]), c)

CurrentHashOf(p) == currentHashOfLabels(specLabels[p])

\* C14: for a ready, unpaused cluster c with no undeploy in progress, when no
\* hash is recorded for (p, c) or the recorded hash is not the hash of the Spec,
\* the pass calls Deploy once for (p, c), with cleanup unset, gets no error for
\* c and records c as Provisioning with the hash of the Spec.
C14_DeployWhenNewOrChanged ==
    [][\A p \in Policies, c \in Clusters :
        (/\ ReconcileNormal(p)
         /\ ReachesQueueOnDeploy(p, c)
         /\ ~IsInProgress(queue, p, c, TRUE)
         /\ RecordedFor(p, c).hash # CurrentHashOf(p))
        => /\ c \in lastPass'.deploy
           /\ queue'[p][c][FALSE] = "inprogress"
           /\ queue'[p][c][TRUE] = queue[p][c][TRUE]
           /\ c \notin lastPass'.errors
           /\ EntrySet(clusterInfo'[p], c) =
                 {ClusterInfoOf(c, "Provisioning", CurrentHashOf(p), "nil")}]_vars

\* the Spec has been edited and the pass that followed has queued a deploy
\* for a cluster, recorded as Provisioning with the new hash
C14_Witness ==
    \E p \in Policies, c \in Clusters :
        /\ lastPass.kind = "normal" /\ lastPass.policy = p
        /\ c \in lastPass.deploy
        /\ specLabels[p] # Keys
        /\ queue[p][c][FALSE] = "inprogress"
        /\ EntrySet(clusterInfo[p], c) =
              {ClusterInfoOf(c, "Provisioning", CurrentHashOf(p), "nil")}

\* processClassifier is called for (p, c) by the pass about to run, finds no
\* undeploy in progress and the recorded hash equal to the hash of the Spec
SameConfig(p, c) ==
    /\ ReachesQueueOnDeploy(p, c)
    /\ ~IsInProgress(queue, p, c, TRUE)
    /\ RecordedFor(p, c).hash = CurrentHashOf(p)

\* C15: when the recorded hash is the hash of the Spec and the queue holds a
\* Failed result of the deploy of (p, c), the pass calls Deploy for (p, c) and
\* records c as Provisioning.
C15_RedeployAfterFailure ==
    [][\A p \in Policies, c \in Clusters :
        (/\ ReconcileNormal(p)
         /\ SameConfig(p, c)
         /\ GetResult(queue, p, c, FALSE) = "Failed")
        => /\ c \in lastPass'.deploy
           /\ queue'[p][c][FALSE] = "inprogress"
           /\ \A e \in EntrySet(clusterInfo'[p], c) : e.status = "Provisioning"]_vars

\* C16: when the recorded hash is the hash of the Spec, the pass calls Deploy
\* for no request of (p, c) if the queue holds a Deployed or InProgress result,
\* or holds no result while c is recorded Provisioned.  For a Deployed result
\* and for no result, c is recorded Provisioned and there is no error for c;
\* for an InProgress result c is recorded Provisioning and there is an error.
C16_NoDeployWhenSameConfig ==
    [][\A p \in Policies, c \in Clusters :
        (ReconcileNormal(p) /\ SameConfig(p, c)) =>
            LET result == GetResult(queue, p, c, FALSE)
                after == {[status |-> e.status, hash |-> e.hash] :
                             e \in EntrySet(clusterInfo'[p], c)}
            IN /\ (result = "Deployed"
                   \/ (result = "Unavailable"
                       /\ RecordedFor(p, c).status = "Provisioned"))
                  => /\ c \notin lastPass'.deploy
                     /\ queue'[p][c] = queue[p][c]
                     /\ c \notin lastPass'.errors
                     /\ after = {[status |-> "Provisioned", hash |-> CurrentHashOf(p)]}
               /\ result = "InProgress"
                  => /\ c \notin lastPass'.deploy
                     /\ queue'[p][c] = queue[p][c]
                     /\ c \in lastPass'.errors
                     /\ after = {[status |-> "Provisioning",
                                  hash |-> CurrentHashOf(p)]}]_vars

\* a pass has found the deploy of (p, c) still in progress with the hash
\* unchanged: it has called Deploy for nothing and has an error for c, which
\* is recorded Provisioning from the result of the queue
C16_Witness ==
    \E p \in Policies, c \in Clusters :
        /\ lastPass.kind = "normal" /\ lastPass.policy = p
        /\ lastPass.deploy = {}
        /\ c \in lastPass.errors
        /\ queue[p][c][FALSE] = "inprogress"
        /\ EntrySet(clusterInfo[p], c) =
              {ClusterInfoOf(c, "Provisioning", CurrentHashOf(p), "")}

\* C17: when the recorded hash is the hash of the Spec and the queue holds a
\* Failed result of the deploy of (p, c), the entry the pass records for c has
\* status Failed and, as FailureMessage, the message of the error of the result.
C17_FailureMessageRecorded ==
    [][\A p \in Policies, c \in Clusters :
        (/\ ReconcileNormal(p)
         /\ SameConfig(p, c)
         /\ GetResult(queue, p, c, FALSE) = "Failed")
        => EntrySet(clusterInfo'[p], c) =
              {ClusterInfoOf(c, "Failed", CurrentHashOf(p),
                             IF queue[p][c][FALSE] = "failed"
                             THEN "handler error" ELSE "")}]_vars

\* C18: whatever fails for one cluster, the pass of p does not end with an
\* error returned by Reconcile, and processClassifier is still run for every
\* other cluster of Status.ClusterInfo: a cluster that exists, is ready and not
\* paused and has no undeploy in progress leaves the pass with the entry
\* processClassifier returned for it.
C18_ClusterFailureIsIsolated ==
    [][\A p \in Policies :
        LabelsUpdate(p) =>
            /\ ~scope'[p].err
            /\ \A c \in InfoClusters(updateClusterInfo(scope[p].clusterInfo)) :
                  (clusterExists[c] /\ canProceed(c) /\ ~IsInProgress(queue, p, c, TRUE))
                  => /\ EntrySet(scope'[p].clusterInfo, c) # {}
                     /\ \A e \in EntrySet(scope'[p].clusterInfo, c) :
                           e.status \in {"Provisioned", "Provisioning", "Failed"}]_vars

\* C19: a reconcileNormal pass asks for no requeue only if every cluster that
\* has an entry in Status.ClusterInfo when deployClassifier starts is recorded
\* Provisioned by the pass; otherwise Reconcile asks for a requeue after
\* normalRequeueAfter (20 seconds), with no error.
C19_NoRequeueOnlyIfAllProvisioned ==
    [][\A p \in Policies :
        ReconcileNormal(p) =>
            /\ ~lastPass'.err
            /\ \/ lastPass'.requeueAfter = normalRequeueAfter
               \/ /\ lastPass'.requeueAfter = 0
                  /\ \A c \in InfoClusters(updateClusterInfo(clusterInfo[p])) :
                        /\ EntrySet(clusterInfo'[p], c) # {}
                        /\ \A e \in EntrySet(clusterInfo'[p], c) :
                              e.status = "Provisioned"]_vars

\* C20: Status.ClusterInfo never holds two entries for the same cluster.
C20_OneEntryPerCluster ==
    \A p \in Policies, c \in Clusters :
        Cardinality(EntriesOf(clusterInfo[p], c)) <= 1

\* a pass has run over a status that already had an entry for one cluster and
\* has added an entry for a cluster created since
C20_Witness ==
    \E p \in Policies, c \in Clusters, d \in Clusters :
        /\ c # d
        /\ lastPass.kind = "normal" /\ lastPass.policy = p
        /\ Len(clusterInfo[p]) = 2
        /\ clusterInfo[p][1] = ClusterInfoOf(c, "Provisioned", CurrentHashOf(p), "")
        /\ clusterInfo[p][2].cluster = d
        /\ d \in lastPass.deploy
        /\ changes > 0

\* -------------------------------------- the life of a Status.ClusterInfo entry

\* C21: the entry of cluster c in Status.ClusterInfo stays through every
\* reconcileNormal pass, whatever the pass finds for c (paused, not ready, an
\* undeploy in progress, an error), and a reconcileDelete pass removes it only
\* when the queue holds the Removed result of the undeploy of (p, c) or the
\* cluster is gone.
C21_EntryStaysUntilRemoved ==
    [][\A p \in Policies, c \in Clusters :
        EntriesOf(clusterInfo[p], c) # {} =>
            /\ ReconcileNormal(p) => EntriesOf(clusterInfo'[p], c) # {}
            /\ (ReconcileDelete(p) /\ EntriesOf(clusterInfo'[p], c) = {})
               => \/ ~clusterExists[c]
                  \/ GetResult(queue, p, c, TRUE) = "Removed"]_vars

\* C22: a reconcileDelete pass that calls Deploy with cleanup set for (p, c)
\* leaves c in Status.ClusterInfo with status Removing, and a pass that finds
\* the Removed result of (p, c) leaves no entry for c.
C22_RemovingThenDeleted ==
    [][\A p \in Policies, c \in Clusters :
        ReconcileDelete(p) =>
            /\ c \in lastPass'.undeploy
               => /\ EntrySet(clusterInfo'[p], c) # {}
                  /\ \A e \in EntrySet(clusterInfo'[p], c) : e.status = "Removing"
            /\ (/\ ReachesQueueOnUndeploy(p, c)
                /\ ~deployInProgress(queue, p, c)
                /\ GetResult(queue, p, c, TRUE) = "Removed")
               => EntriesOf(clusterInfo'[p], c) = {}]_vars

\* C24: when the recorded hash of (p, c) is not the hash of the Spec and the
\* deploy queued with the recorded hash is still in progress, the pass calls
\* Deploy for no request of (p, c), has an error for c and asks for a requeue
\* after normalRequeueAfter.
C24_NoDeployWhileOlderInFlight ==
    [][\A p \in Policies, c \in Clusters :
        (/\ ReconcileNormal(p)
         /\ ReachesQueueOnDeploy(p, c)
         /\ ~IsInProgress(queue, p, c, TRUE)
         /\ IsInProgress(queue, p, c, FALSE)
         /\ RecordedFor(p, c).hash \notin {0, CurrentHashOf(p)})
        => /\ c \notin lastPass'.deploy
           /\ c \in lastPass'.errors
           /\ lastPass'.requeueAfter = normalRequeueAfter
           /\ queue'[p][c] = queue[p][c]]_vars

\* C25: when a reconcileNormal pass of p ends without a terminal error,
\* ClassifierMap[p] is the set of the clusters of the persisted
\* Status.ClusterInfo of p, and p is in ClusterMap[c] for these clusters and
\* for no other.
C25_IndexMatchesClusterInfo ==
    [][\A p \in Policies :
        (ReconcileNormal(p) /\ ~lastPass'.err) =>
            /\ ClassifierMap'[p] = InfoClusters(clusterInfo'[p])
            /\ \A c \in Clusters :
                  p \in ClusterMap'[c] <=> c \in InfoClusters(clusterInfo'[p])]_vars

\* C29: when every cluster of Status.ClusterInfo exists, is not paused, has no
\* deploy in progress and no result of an undeploy, removeClassifier queues the
\* undeploy of each of them and returns "cleanup request is queued", and
\* undeployClassifier, in one pass, calls Deploy with cleanup set for all of
\* them and returns the error that counts them all: the pass asks for a
\* requeue after deleteRequeueAfter and keeps the finalizer.
C29_UndeployQueuesEveryCluster ==
    [][\A p \in Policies :
        LET S == InfoClusters(clusterInfo[p])
            un == undeployClassifier(queue, p, clusterInfo[p])
        IN (/\ ReconcileDelete(p)
            /\ S # {}
            /\ \A c \in S : /\ ReachesQueueOnUndeploy(p, c)
                            /\ ~deployInProgress(queue, p, c)
                            /\ GetResult(queue, p, c, TRUE) = "Unavailable")
           => /\ \A c \in S :
                    /\ removeClassifier(queue, p, c) =
                          [err |-> "cleanup request is queued", undeploy |-> TRUE]
                    /\ queue'[p][c][TRUE] = "inprogress"
              /\ un.err
              /\ Len(un.clusterInfo) = Cardinality(S)
              /\ lastPass'.undeploy = S
              /\ lastPass'.errors = S
              /\ lastPass'.requeueAfter = deleteRequeueAfter
              /\ ~lastPass'.finalizerRemoved]_vars

\* a reconcileDelete pass has queued the undeploy of two clusters at once
C29_Witness ==
    \E p \in Policies :
        /\ phase[p] = "deleting"
        /\ lastPass.kind = "delete" /\ lastPass.policy = p
        /\ lastPass.undeploy = Clusters
        /\ lastPass.errors = Clusters
        /\ \A c \in Clusters : queue[p][c][TRUE] = "inprogress"

\* ---------------------------------------- SpecMux: the passes around Mux
\* Every pass, step by step, with the calls it makes outside of the process
\* (API server, deployer) logged in the scope.  Reconcile runs the passes of
\* different Classifiers concurrently; the Classifier is marked for deletion
\* between two of its passes.

RECURSIVE Flatten(_)
Flatten(seqs) == IF seqs = <<>> THEN <<>> ELSE Head(seqs) \o Flatten(Tail(seqs))

\* the calls of removeClassifier for (p, c)
removeClassifierCalls(q, p, c) ==
    <<Call("Get Cluster", c)>>
    \o (IF isPaused(c) THEN <<>>
        ELSE <<Call("Deployer.IsInProgress", c)>>
             \o (IF deployInProgress(q, p, c) THEN <<>>
                 ELSE <<Call("Deployer.GetResult", c)>>
                      \o (IF removeClassifier(q, p, c).undeploy
                          THEN <<Call("Deployer.Deploy", c)>> ELSE <<>>)))

\* the calls of processClassifier for (p, c)
processClassifierCalls(q, p, labels, infos, c) ==
    LET isConfigSame == getClassifierInClusterHashAndStatus(infos, c).hash
                            = currentHashOfLabels(labels)
    IN <<Call("Get Cluster", c)>>
       \o (IF ~clusterExists[c] \/ ~canProceed(c) THEN <<>>
           ELSE <<Call("Deployer.IsInProgress", c)>>
                \o (IF cleanupInProgress(q, p, c) THEN <<>>
                    ELSE (IF isConfigSame THEN <<Call("Deployer.GetResult", c)>>
                          ELSE <<>>)
                         \o (IF processClassifier(q, p, labels, infos, c).deploy
                             THEN <<Call("Deployer.Deploy", c)>> ELSE <<>>)))

\* A faulty start of reconcileNormal: the finalizer is not added.
MuxNormalBeginNoFinalizer(p) ==
    /\ phase[p] = "live"
    /\ pc[p] = "idle"
    /\ \E labels \in {specLabels[p]}, current \in {currentMatchingClusters(p)} :
       \E order \in Orders(current) :
       \E owner \in {handleLabelRegistrations(keyOwner, p, labels, current,
                                              StatusRefs(matchingStatuses[p]))} :
           /\ finalizer' = finalizer
           /\ keyOwner' = owner
           /\ scope' = [scope EXCEPT ![p] =
                  [NoScope EXCEPT
                      !.labels = labels, !.current = current,
                      !.clusterInfo = clusterInfo[p],
                      !.matching = matchingClusterStatus(owner, p, labels, order),
                      !.log = <<Call("List ClassifierReports", ZeroRef)>>]]
    /\ pc' = [pc EXCEPT ![p] = "setLock"]
    /\ UNCHANGED <<collectVars, callVars, ClassifierReportMode, access>>
    /\ UNCHANGED <<phase, specLabels, fleetVars, clusterLabels, reports,
                   matchingStatuses, clusterInfo, indexVars, setVars, queue, lastPass,
                   changes>>

\* reconcileNormal up to the call of updateClassifierSet: the finalizer is
\* added when the Classifier has none (addFinalizer patches the object at
\* once; when the patch fails the pass ends with the error, and the patch of
\* the deferred Close may still persist the finalizer), the reports are
\* listed, the registrations handled and the status list built.
MuxNormalBegin(p) ==
    /\ phase[p] = "live"
    /\ pc[p] = "idle"
    /\ \E patched \in {TRUE} \cup {finalizer[p]} :
       IF patched
       THEN \E labels \in {specLabels[p]}, current \in {currentMatchingClusters(p)} :
            \E order \in Orders(current) :
            \E owner \in {handleLabelRegistrations(keyOwner, p, labels, current,
                                                   StatusRefs(matchingStatuses[p]))} :
                /\ finalizer' = [finalizer EXCEPT ![p] = TRUE]
                /\ keyOwner' = owner
                /\ scope' = [scope EXCEPT ![p] =
                       [NoScope EXCEPT
                           !.labels = labels, !.current = current,
                           !.clusterInfo = clusterInfo[p],
                           !.matching = matchingClusterStatus(owner, p, labels, order),
                           !.log = (IF finalizer[p] THEN <<>>
                                    ELSE <<Call("Patch Classifier", ZeroRef)>>)
                                   \o <<Call("List ClassifierReports", ZeroRef)>>]]
                /\ pc' = [pc EXCEPT ![p] = "setLock"]
       ELSE /\ \E closed \in BOOLEAN :
                  finalizer' = [finalizer EXCEPT ![p] = closed]
            /\ keyOwner' = keyOwner
            /\ scope' = [scope EXCEPT ![p] =
                   [NoScope EXCEPT
                       !.clusterInfo = clusterInfo[p],
                       !.matching = matchingStatuses[p],
                       !.err = TRUE,
                       !.log = <<Call("Patch Classifier", ZeroRef)>>]]
            /\ pc' = [pc EXCEPT ![p] = "close"]
    /\ UNCHANGED <<collectVars, callVars, ClassifierReportMode, access>>
    /\ UNCHANGED <<phase, specLabels, fleetVars, clusterLabels, reports,
                   matchingStatuses, clusterInfo, indexVars, setVars, queue, lastPass,
                   changes>>

\* updateClassifierSet: Mux.Lock()
MuxSetLock(p) ==
    /\ pc[p] = "setLock"
    /\ Mux = NoPolicy
    /\ Mux' = p
    /\ pc' = [pc EXCEPT ![p] = "setUpdate"]
    /\ UNCHANGED <<collectVars, callVars, ClassifierReportMode, access>>
    /\ UNCHANGED <<objectVars, fleetVars, labelVars, clusterInfo, ClusterMap,
                   ClassifierMap, setVars, queue, scope, lastPass, changes>>

\* updateClassifierSet: the sets are updated and the deferred Unlock runs
MuxSetUpdate(p) ==
    /\ pc[p] = "setUpdate"
    /\ ClassifierSet' = updateClassifierSet(ClassifierSet, p,
                            hasUnManaged(keyOwner, p, scope[p].labels,
                                         scope[p].current))
    /\ AllClassifierSet' = AllClassifierSet \cup {p}
    /\ Mux' = NoPolicy
    /\ pc' = [pc EXCEPT ![p] = "labels"]
    /\ UNCHANGED <<collectVars, callVars, ClassifierReportMode, access>>
    /\ UNCHANGED <<objectVars, fleetVars, labelVars, clusterInfo, ClusterMap,
                   ClassifierMap, queue, scope, lastPass, changes>>

\* updateLabelsOnMatchingClusters and updateClusterInfo: the matching
\* clusters are fetched and updated, the clusters listed.  A failed Get ends
\* the pass.
MuxNormalLabels(p) ==
    /\ pc[p] = "labels"
    /\ \E upd \in {updateLabelsOnMatchingClusters(keyOwner, p, scope[p].labels,
                                                  scope[p].matching, clusterLabels)} :
          /\ clusterLabels' = upd.labels
          /\ scope' = [scope EXCEPT
                 ![p].err = upd.err,
                 ![p].clusterInfo = IF upd.err THEN @ ELSE updateClusterInfo(@),
                 ![p].log = @ \o [i \in DOMAIN scope[p].matching |->
                                     Call("Get Cluster",
                                          scope[p].matching[i].clusterRef)]
                              \o (IF upd.err THEN <<>>
                                  ELSE <<Call("List Clusters", ZeroRef)>>)]
          /\ pc' = [pc EXCEPT ![p] = IF upd.err THEN "close" ELSE "updateMaps"]
    /\ UNCHANGED <<collectVars, callVars, ClassifierReportMode, access>>
    /\ UNCHANGED <<objectVars, fleetVars, reports, matchingStatuses, keyOwner,
                   clusterInfo, indexVars, setVars, queue, lastPass, changes>>

MuxMapsLock(p) ==
    /\ UpdateMapsLock(p)
    /\ UNCHANGED <<collectVars, callVars, ClassifierReportMode, access>>
    /\ UNCHANGED <<objectVars, fleetVars, labelVars, clusterInfo, ClusterMap,
                   ClassifierMap, setVars, queue, lastPass, changes>>

MuxMapsInsert(p) ==
    /\ UpdateMapsInsert(p)
    /\ UNCHANGED <<collectVars, callVars, ClassifierReportMode, access>>
    /\ UNCHANGED <<objectVars, fleetVars, labelVars, clusterInfo, ClassifierMap, Mux,
                   setVars, queue, scope, lastPass, changes>>

MuxMapsErase(p) ==
    /\ UpdateMapsErase(p)
    /\ UNCHANGED <<collectVars, callVars, ClassifierReportMode, access>>
    /\ UNCHANGED <<objectVars, fleetVars, labelVars, clusterInfo, ClassifierMap, Mux,
                   setVars, queue, scope, lastPass, changes>>

\* updateMaps assigns ClassifierMap, the deferred Unlock runs and
\* reconcileNormal goes on to deployClassifier.
MuxMapsAssign(p) ==
    /\ pc[p] = "um_assign"
    /\ ClassifierMap' = [ClassifierMap EXCEPT ![p] = scope[p].current]
    /\ Mux' = IF Mux = p THEN NoPolicy ELSE Mux
    /\ pc' = [pc EXCEPT ![p] = "deploy"]
    /\ UNCHANGED <<collectVars, callVars, ClassifierReportMode, access>>
    /\ UNCHANGED <<objectVars, fleetVars, labelVars, clusterInfo, ClusterMap,
                   setVars, queue, scope, lastPass, changes>>

\* deployClassifier
MuxNormalDeploy(p) ==
    /\ pc[p] = "deploy"
    /\ \E dep \in {deployClassifier(queue, p, scope[p].labels, scope[p].clusterInfo)} :
          /\ queue' = dep.queue
          /\ scope' = [scope EXCEPT
                 ![p].clusterInfo = dep.clusterInfo,
                 ![p].requeueAfter = IF dep.err THEN normalRequeueAfter ELSE 0,
                 ![p].log = @ \o Flatten([i \in DOMAIN scope[p].clusterInfo |->
                                     processClassifierCalls(queue, p, scope[p].labels,
                                         scope[p].clusterInfo,
                                         scope[p].clusterInfo[i].cluster)])]
    /\ pc' = [pc EXCEPT ![p] = "close"]
    /\ UNCHANGED <<collectVars, callVars, ClassifierReportMode, access>>
    /\ UNCHANGED <<objectVars, fleetVars, labelVars, clusterInfo, indexVars, setVars,
                   lastPass, changes>>

\* reconcileDelete up to Mux.Lock(): removeAllRegistrations
MuxDeleteBegin(p) ==
    /\ phase[p] = "deleting"
    /\ pc[p] = "idle"
    /\ keyOwner' = RemoveAll(keyOwner, p, StatusRefs(matchingStatuses[p]))
    /\ scope' = [scope EXCEPT ![p] =
           [NoScope EXCEPT !.clusterInfo = clusterInfo[p],
                           !.matching = matchingStatuses[p]]]
    /\ pc' = [pc EXCEPT ![p] = "deleteLock"]
    /\ UNCHANGED <<collectVars, callVars, ClassifierReportMode, access>>
    /\ UNCHANGED <<objectVars, fleetVars, clusterLabels, reports, matchingStatuses,
                   clusterInfo, indexVars, setVars, queue, lastPass, changes>>

\* reconcileDelete: Mux.Lock(), with the Unlock deferred to its return
MuxDeleteLock(p) ==
    /\ pc[p] = "deleteLock"
    /\ Mux = NoPolicy
    /\ Mux' = p
    /\ pc' = [pc EXCEPT ![p] = "deleteErase"]
    /\ UNCHANGED <<collectVars, callVars, ClassifierReportMode, access>>
    /\ UNCHANGED <<objectVars, fleetVars, labelVars, clusterInfo, ClusterMap,
                   ClassifierMap, setVars, queue, scope, lastPass, changes>>

\* reconcileDelete: the Classifier leaves ClassifierSet and AllClassifierSet
MuxDeleteErase(p) ==
    /\ pc[p] = "deleteErase"
    /\ ClassifierSet' = ClassifierSet \ {p}
    /\ AllClassifierSet' = AllClassifierSet \ {p}
    /\ pc' = [pc EXCEPT ![p] = "undeploy"]
    /\ UNCHANGED <<collectVars, callVars, ClassifierReportMode, access>>
    /\ UNCHANGED <<objectVars, fleetVars, labelVars, clusterInfo, indexVars, queue,
                   scope, lastPass, changes>>

\* reconcileDelete: undeployClassifier.  With an error reconcileDelete
\* returns; the finalizer stays.
MuxDeleteUndeploy(p) ==
    /\ pc[p] = "undeploy"
    /\ \E un \in {undeployClassifier(queue, p, scope[p].clusterInfo)},
          existing \in {SelectSeq(scope[p].clusterInfo,
                                  LAMBDA e : clusterExists[e.cluster])} :
          /\ queue' = un.queue
          /\ scope' = [scope EXCEPT
                 ![p].err = un.err,
                 ![p].requeueAfter = IF un.err THEN deleteRequeueAfter ELSE 0,
                 ![p].clusterInfo = IF un.err THEN @ ELSE <<>>,
                 ![p].matching = IF un.err
                                 THEN [i \in DOMAIN un.clusterInfo |->
                                         [ZeroStatus EXCEPT !.clusterRef =
                                             un.clusterInfo[i].cluster]]
                                 ELSE @,
                 ![p].toBeRemoved = un.undeploy,
                 \* the Cluster of every entry is fetched, then
                 \* removeClassifier runs for the ones that exist
                 ![p].log = @ \o [i \in DOMAIN scope[p].clusterInfo |->
                                     Call("Get Cluster", scope[p].clusterInfo[i].cluster)]
                              \o Flatten([i \in DOMAIN existing |->
                                     removeClassifierCalls(queue, p,
                                                           existing[i].cluster)])]
          /\ pc' = [pc EXCEPT ![p] = IF un.err THEN "deleteUnlock" ELSE "reports"]
    /\ UNCHANGED <<collectVars, callVars, ClassifierReportMode, access>>
    /\ UNCHANGED <<objectVars, fleetVars, labelVars, clusterInfo, indexVars, setVars,
                   lastPass, changes>>

\* reconcileDelete: removeClassifierReports, removeAccessRequest, and the
\* finalizer is dropped from the object of the scope
MuxDeleteReports(p) ==
    /\ pc[p] = "reports"
    /\ reports' = [reports EXCEPT ![p] = [c \in Clusters |-> FALSE]]
    /\ scope' = [scope EXCEPT
           ![p].log = @ \o <<Call("List ClassifierReports", ZeroRef),
                             Call("Delete AccessRequest", ZeroRef)>>]
    /\ pc' = [pc EXCEPT ![p] = "deleteUnlock"]
    /\ UNCHANGED <<collectVars, callVars, ClassifierReportMode, access>>
    /\ UNCHANGED <<objectVars, fleetVars, clusterLabels, matchingStatuses, keyOwner,
                   clusterInfo, indexVars, setVars, queue, lastPass, changes>>

\* reconcileDelete returns: the deferred Unlock runs
MuxDeleteUnlock(p) ==
    /\ pc[p] = "deleteUnlock"
    /\ Mux' = IF Mux = p THEN NoPolicy ELSE Mux
    /\ pc' = [pc EXCEPT ![p] = "close"]
    /\ UNCHANGED <<collectVars, callVars, ClassifierReportMode, access>>
    /\ UNCHANGED <<objectVars, fleetVars, labelVars, clusterInfo, ClusterMap,
                   ClassifierMap, setVars, queue, scope, lastPass, changes>>

\* Reconcile returns: the deferred Close persists the status of the scope;
\* the Classifier whose finalizer was dropped is gone.
MuxClose(p) ==
    /\ pc[p] = "close"
    /\ \E gone \in {phase[p] = "deleting" /\ ~scope[p].err} :
          /\ phase' = [phase EXCEPT ![p] = IF gone THEN "absent" ELSE @]
          /\ finalizer' = [finalizer EXCEPT ![p] = IF gone THEN FALSE ELSE @]
          /\ clusterInfo' = [clusterInfo EXCEPT ![p] =
                                IF gone THEN <<>> ELSE scope[p].clusterInfo]
          /\ matchingStatuses' = [matchingStatuses EXCEPT ![p] =
                                     IF gone THEN <<>> ELSE scope[p].matching]
          /\ lastPass' = PassOf(IF phase[p] = "deleting" THEN "delete" ELSE "normal",
                                p, {}, scope[p].toBeRemoved, {},
                                scope[p].requeueAfter,
                                phase[p] = "live" /\ scope[p].err, gone)
    /\ scope' = [scope EXCEPT ![p] = NoScope]
    /\ pc' = [pc EXCEPT ![p] = "idle"]
    /\ UNCHANGED <<collectVars, callVars, ClassifierReportMode, access>>
    /\ UNCHANGED <<specLabels, fleetVars, clusterLabels, reports, keyOwner, indexVars,
                   setVars, queue, changes>>

\* A Classifier is marked for deletion between two of its passes.
MuxDeleteClassifier(p) ==
    /\ changes < MaxMuxChanges
    /\ changes' = changes + 1
    /\ pc[p] = "idle"
    /\ DeleteClassifier(p)
    /\ UNCHANGED <<collectVars, callVars, ClassifierReportMode, access>>
    /\ UNCHANGED <<finalizer, specLabels, fleetVars, clusterLabels, reports, keyOwner, indexVars,
                   setVars, queue, pc, scope, lastPass>>

\* A worker of the deployer finishes a request.
MuxQueueComplete(p) ==
    /\ changes < MaxMuxChanges
    /\ changes' = changes + 1
    /\ \E c \in Clusters, cleanup \in BOOLEAN, ok \in BOOLEAN :
          QueueComplete(p, c, cleanup, ok)
    /\ UNCHANGED <<collectVars, callVars, ClassifierReportMode, access>>
    /\ UNCHANGED <<objectVars, fleetVars, labelVars, clusterInfo, indexVars, setVars,
                   pc, scope, lastPass>>

NextMux ==
    \/ \E p \in Policies : MuxNormalBegin(p)
    \/ \E p \in Policies : MuxSetLock(p)
    \/ \E p \in Policies : MuxSetUpdate(p)
    \/ \E p \in Policies : MuxNormalLabels(p)
    \/ \E p \in Policies : MuxMapsLock(p)
    \/ \E p \in Policies : MuxMapsInsert(p)
    \/ \E p \in Policies : MuxMapsErase(p)
    \/ \E p \in Policies : MuxMapsAssign(p)
    \/ \E p \in Policies : MuxNormalDeploy(p)
    \/ \E p \in Policies : MuxDeleteBegin(p)
    \/ \E p \in Policies : MuxDeleteLock(p)
    \/ \E p \in Policies : MuxDeleteErase(p)
    \/ \E p \in Policies : MuxDeleteUndeploy(p)
    \/ \E p \in Policies : MuxDeleteReports(p)
    \/ \E p \in Policies : MuxDeleteUnlock(p)
    \/ \E p \in Policies : MuxClose(p)
    \/ \E p \in Policies : MuxDeleteClassifier(p)
    \/ \E p \in Policies : MuxQueueComplete(p)

SpecMux == Init /\ [][NextMux]_vars

\* C23: a step of the worker that holds Mux makes no call outside of the
\* process (API server, deployer): it logs no call and changes neither the
\* deployer queue nor the reports, on the normal path and on the delete path.
C23_OnlyMemoryUnderMux ==
    [][\A p \in Policies :
        (Mux = p /\ pc'[p] # pc[p])
        => /\ scope'[p].log = scope[p].log
           /\ queue' = queue
           /\ reports' = reports]_vars

\* --------------------------------- SpecCollect: collectClassifierReports
\* The ClassifierReport the classifier agent keeps in a managed cluster for
\* classifier p: labelled with the name of the classifier (unless malformed),
\* Spec.Match set or not.
ReportOf(p, labelled, match) ==
    [labels |-> IF labelled THEN PolicyName(p) ELSE <<>>,
     spec |-> [classifierName |-> PolicyName(p), match |-> match,
               clusterNamespace |-> <<>>, clusterName |-> <<>>]]

\* the Spec the collector writes for a report found in cluster c
MirrorSpec(spec, c) ==
    [spec EXCEPT !.clusterNamespace = ClusterNamespace(c),
                 !.clusterName = ClusterName(c)]

\* the (namespace, name) under which the report of classifier p found in
\* cluster c is kept in the management cluster
MirrorKey(p, c) ==
    <<ClusterNamespace(c), getClassifierReportName(PolicyName(p), ClusterName(c))>>

\* updateClassifierReport: the report found in cluster c is created in the
\* management cluster, or the one found there under its name is updated.  ok:
\* the API server answers the Get and the Create or Update without an error.
updateClassifierReport(m, c, report, ok) ==
    IF report.labels = <<>> THEN [mirror |-> m, err |-> TRUE]
    ELSE LET key == <<ClusterNamespace(c),
                      getClassifierReportName(report.labels, ClusterName(c))>>
             cluster == getClusterInfo(ClusterNamespace(c), ClusterName(c))
         IN IF ~ok THEN [mirror |-> m, err |-> TRUE]
            ELSE IF m[key] = NoObject
            THEN [mirror |-> [m EXCEPT ![key] =
                      [labels |-> [classifier |-> report.labels, cluster |-> cluster],
                       spec |-> MirrorSpec(report.spec, c)]],
                  err |-> FALSE]
            ELSE [mirror |-> [m EXCEPT ![key] =
                      [labels |-> [@.labels EXCEPT !.cluster = cluster],
                       spec |-> MirrorSpec(report.spec, c)]],
                  err |-> FALSE]

\* collectClassifierReports, top of the loop: the Clusters are listed.  When
\* the List fails the loop goes to its next iteration.
CollectList ==
    /\ collector.pc = "list"
    /\ collector.rounds < MaxRounds
    /\ \E ok \in BOOLEAN :
          collector' = [collector EXCEPT
              !.rounds = @ + 1,
              !.waited = 0,
              !.clusters = IF ok THEN getListOfClusters ELSE <<>>,
              !.pc = IF ok THEN "cluster" ELSE "list"]
    /\ UNCHANGED <<remote, mirror, reconcilerVars, changes, callVars>>

\* collectClassifierReportsFromCluster up to the loop over the reports: the
\* next Cluster is skipped when it is not ready or when an error is met
\* (ok: none is), else its ClassifierReports are listed.
CollectCluster ==
    /\ collector.pc = "cluster"
    /\ collector.clusters # <<>>
    /\ \E ok \in BOOLEAN :
          LET c == Head(collector.clusters)
              found == SetToSeq({p \in Policies : remote[c][p] # NoObject})
              items == IF ok /\ clusterReady[c]
                       THEN [i \in DOMAIN found |->
                                [policy |-> found[i], report |-> remote[c][found[i]]]]
                       ELSE <<>>
          IN collector' = [collector EXCEPT
                 !.clusters = Tail(@),
                 !.cluster = c,
                 !.items = items,
                 !.pc = IF items = <<>> THEN "cluster" ELSE "report"]
    /\ UNCHANGED <<remote, mirror, reconcilerVars, changes, callVars>>

\* the loop over the reports of a cluster: updateClassifierReport for the
\* next one; its error is logged and the loop goes on
CollectReport ==
    /\ collector.pc = "report"
    /\ \E ok \in BOOLEAN :
          LET c == collector.cluster
              item == Head(collector.items)
              upd == updateClassifierReport(mirror, c, item.report, ok)
          IN /\ mirror' = upd.mirror
             /\ collector' = [collector EXCEPT
                    !.items = Tail(@),
                    !.pc = IF Tail(collector.items) = <<>> THEN "cluster" ELSE "report",
                    !.collected[item.policy][c] =
                        IF upd.err THEN @ ELSE item.report]
    /\ UNCHANGED <<remote, reconcilerVars, changes, callVars>>

\* every listed Cluster is done: time.Sleep(interval)
CollectSleep ==
    /\ collector.pc = "cluster"
    /\ collector.clusters = <<>>
    /\ collector' = [collector EXCEPT !.waited = interval, !.pc = "list"]
    /\ UNCHANGED <<remote, mirror, reconcilerVars, changes, callVars>>

\* The classifier agent of a managed cluster writes or removes a report.
CollectRemoteChange ==
    /\ changes < MaxReportChanges
    /\ changes' = changes + 1
    /\ \E c \in Clusters, p \in Policies :
          \E r \in {NoObject} \cup {ReportOf(p, l, m) : l, m \in BOOLEAN} :
             /\ r # remote[c][p]
             /\ remote' = [remote EXCEPT ![c][p] = r]
    /\ UNCHANGED <<mirror, collector, reconcilerVars, callVars>>

\* the managed clusters hold any well-formed reports when the collector starts
InitCollect ==
    /\ InitReconciler
    /\ ClassifierReportMode = "CollectFromManagementCluster"
    /\ clusterDeleting = [c \in Clusters |-> FALSE]
    /\ \E f \in [Clusters -> [Policies -> {"none", "match", "nomatch"}]] :
          remote = [c \in Clusters |-> [p \in Policies |->
                       IF f[c][p] = "none" THEN NoObject
                       ELSE ReportOf(p, TRUE, f[c][p] = "match")]]
    /\ mirror = NoReports.mirror
    /\ collector = NoReports.collector
    /\ input = NoCall
    /\ output = NoCall

NextCollect ==
    \/ CollectList
    \/ CollectCluster
    \/ CollectReport
    \/ CollectSleep
    \/ CollectRemoteChange

SpecCollect == InitCollect /\ [][NextCollect]_vars

\* C27: whenever updateClassifierReport has run for the report of classifier
\* p found in cluster c, the management cluster holds, for every pair
\* (classifier, cluster), at most one ClassifierReport, under the name
\* "<classifier>--<cluster>" in the namespace of the cluster; its Spec is the
\* Spec of the report collected last for the pair, with clusterNamespace and
\* clusterName set; and the call has left the ClassifierReport of every other
\* pair as it was.
C27_OneMirrorPerPair ==
    [][CollectReport =>
        LET c == collector.cluster
            p == Head(collector.items).policy
        IN /\ \A q \in Policies, d \in Clusters :
                 <<q, d>> # <<p, c>> => mirror'[MirrorKey(q, d)] = mirror[MirrorKey(q, d)]
           /\ \A q \in Policies, d \in Clusters :
                 /\ \A k \in MirrorKeys :
                       (/\ mirror'[k] # NoObject
                        /\ mirror'[k].labels.classifier = PolicyName(q)
                        /\ mirror'[k].spec.clusterNamespace = ClusterNamespace(d)
                        /\ mirror'[k].spec.clusterName = ClusterName(d))
                       => k = MirrorKey(q, d)
                 /\ collector'.collected[q][d] # NoObject
                    => /\ mirror'[MirrorKey(q, d)] # NoObject
                       /\ mirror'[MirrorKey(q, d)].spec =
                             MirrorSpec(collector'.collected[q][d].spec, d)]_vars

\* C28: the collector starts no round, after its first, without having slept
\* the interval since it started the round before, whether the list of the
\* Clusters failed in that round or not.
C28_IntervalBetweenRounds ==
    [][CollectList =>
        (collector.rounds > 0 => collector.waited = interval)]_vars

\* ---------------------------------- SpecCalls: one call of a function
\* ----------------------------------------------------------- the hashes
Specs ==
    {ClassifierSpec(labels, versions, resources) :
        labels \in SUBSET Keys, versions \in 0..MaxConstraint,
        resources \in 0..MaxConstraint}

\* classifierHash of both Specs, and getCurrentHash as processClassifier
\* calls it for the first
HashCall ==
    /\ input.kind = "hash"
    /\ output = NoCall
    /\ output' = [kind |-> "hash",
                  a |-> classifierHash(input.a),
                  b |-> classifierHash(input.b),
                  current |-> getCurrentHash(input.mode, input.a, input.kubeconfig,
                                             input.cpEndpoint)]
    /\ UNCHANGED <<reconcilerVars, changes, collectVars, input>>

ClusterObjects ==
    [paused : BOOLEAN, controlPlaneReady : BOOLEAN, infrastructureReady : BOOLEAN,
     labels : SUBSET Keys]

\* A faulty UpdateFunc: any change of Spec.Paused lets the event through.
UpdateFuncPausedChanged(oldCluster, newCluster) ==
    IF oldCluster = NoObject THEN TRUE
    ELSE IF oldCluster.paused # newCluster.paused THEN TRUE
    ELSE IF oldCluster.controlPlaneReady # newCluster.controlPlaneReady THEN TRUE
    ELSE IF oldCluster.infrastructureReady # newCluster.infrastructureReady THEN TRUE
    ELSE FALSE

\* UpdateFunc of ClusterPredicates (NoObject: the nil old Cluster)
UpdateFunc(oldCluster, newCluster) ==
    IF oldCluster = NoObject THEN TRUE
    ELSE IF oldCluster.paused /\ ~newCluster.paused THEN TRUE
    ELSE IF oldCluster.controlPlaneReady # newCluster.controlPlaneReady THEN TRUE
    ELSE IF oldCluster.infrastructureReady # newCluster.infrastructureReady THEN TRUE
    ELSE FALSE

CreateFunc(cluster) == ~cluster.paused

DeleteFunc(cluster) == TRUE

GenericFunc(cluster) == FALSE

\* the watch runs the event through the predicates
PredicateCall ==
    /\ input.kind \in {"Create", "Delete", "Generic", "Update"}
    /\ output = NoCall
    /\ output' = [kind |-> "predicate",
                  passed |-> CASE input.kind = "Create" -> CreateFunc(input.new)
                               [] input.kind = "Delete" -> DeleteFunc(input.new)
                               [] input.kind = "Update" ->
                                      UpdateFunc(input.old, input.new)
                               [] OTHER -> GenericFunc(input.new)]
    /\ UNCHANGED <<reconcilerVars, changes, collectVars, input>>

\* updateClusterInfo on the Status.ClusterInfo of a Classifier
ClusterInfoCall ==
    /\ input.kind = "updateClusterInfo"
    /\ output = NoCall
    /\ output' = [kind |-> "updateClusterInfo",
                  infos |-> updateClusterInfo(input.infos)]
    /\ UNCHANGED <<reconcilerVars, changes, collectVars, input>>

\* The arguments of the call, one of:
\*   two Specs, the mode of the reconciler, the kubeconfig of the cluster (if
\*   any) and the control plane endpoint;
\*   an event of the Cluster watch;
\*   a Status.ClusterInfo list (no two entries for a Cluster), in front of a
\*   fleet some Clusters of which are marked for deletion.
InitCalls ==
    /\ InitReconciler
    /\ ClassifierReportMode = "CollectFromManagementCluster"
    /\ remote = NoReports.remote
    /\ mirror = NoReports.mirror
    /\ collector = NoReports.collector
    /\ LET entries == {[cluster |-> c, status |-> st,
                        hash |-> IF st = "" THEN 0 ELSE 1, msg |-> "nil"] :
                           c \in Clusters, st \in {"", "Provisioned"}}
       IN input \in
             [kind : {"hash"}, a : Specs, b : Specs,
              mode : {"CollectFromManagementCluster", "AgentSendReportsNoGateway"},
              kubeconfig : {NoKubeconfig, 1}, cpEndpoint : {1}]
             \cup [kind : {"Create", "Delete", "Generic"}, new : ClusterObjects]
             \cup [kind : {"Update"}, old : ClusterObjects \cup {NoObject},
                   new : ClusterObjects]
             \cup [kind : {"updateClusterInfo"},
                   infos : {<<>>} \cup {<<e>> : e \in entries}
                           \cup {<<ef[1], ef[2]>> :
                                  ef \in {gh \in entries \X entries :
                                             gh[1].cluster # gh[2].cluster}}]
    /\ clusterDeleting \in [Clusters -> BOOLEAN]
    /\ \A c \in Clusters :
          clusterDeleting[c] => clusterExists[c] /\ input.kind = "updateClusterInfo"
    /\ output = NoCall

NextCalls ==
    \/ HashCall
    \/ PredicateCall
    \/ ClusterInfoCall

SpecCalls == InitCalls /\ [][NextCalls]_vars

\* the readiness the predicates compare
SameReadiness(oldCluster, newCluster) ==
    /\ oldCluster.controlPlaneReady = newCluster.controlPlaneReady
    /\ oldCluster.infrastructureReady = newCluster.infrastructureReady

\* C30, as stated: a Create event passes exactly when the Cluster is not
\* paused; a Delete event passes; an Update passes when Spec.Paused goes from
\* true to false; an Update is blocked when Spec.Paused goes from false to
\* true, and when Spec.Paused, the readiness and the labels are all unchanged.
C30_ClusterPredicatesAsStated ==
    output # NoCall =>
        /\ input.kind = "Create" => (output.passed <=> ~input.new.paused)
        /\ input.kind = "Delete" => output.passed
        /\ (input.kind = "Update" /\ input.old # NoObject) =>
              /\ (input.old.paused /\ ~input.new.paused) => output.passed
              /\ (~input.old.paused /\ input.new.paused) => ~output.passed
              /\ (/\ input.old.paused = input.new.paused
                  /\ SameReadiness(input.old, input.new)
                  /\ input.old.labels = input.new.labels) => ~output.passed

\* C30, amended: as above, an Update in which Spec.Paused goes from false to
\* true being blocked when the readiness is unchanged.
C30_ClusterPredicates ==
    output # NoCall =>
        /\ input.kind = "Create" => (output.passed <=> ~input.new.paused)
        /\ input.kind = "Delete" => output.passed
        /\ (input.kind = "Update" /\ input.old # NoObject) =>
              /\ (input.old.paused /\ ~input.new.paused) => output.passed
              /\ (/\ ~input.old.paused /\ input.new.paused
                  /\ SameReadiness(input.old, input.new)) => ~output.passed
              /\ (/\ input.old.paused = input.new.paused
                  /\ SameReadiness(input.old, input.new)
                  /\ input.old.labels = input.new.labels) => ~output.passed

\* an Update in which the Cluster is paused, its readiness unchanged and its
\* labels changed, has been blocked
C30_Witness ==
    /\ output # NoCall
    /\ input.kind = "Update"
    /\ input.old # NoObject
    /\ ~input.old.paused /\ input.new.paused
    /\ SameReadiness(input.old, input.new)
    /\ input.old.labels # input.new.labels
    /\ ~output.passed

\* C31: an Update event in which the labels of the Cluster differ between the
\* old and the new object passes the filter, also when Spec.Paused and the
\* readiness are unchanged.
C31_LabelChangePasses ==
    (/\ output # NoCall
     /\ input.kind = "Update"
     /\ input.old # NoObject
     /\ input.old.labels # input.new.labels) => output.passed

\* C32: updateClusterInfo leaves the entries it finds as they are, in content
\* and in order, and appends to them one entry with empty status and hash for
\* every existing Cluster that is not marked for deletion and has no entry,
\* and nothing else: no entry for a Cluster marked for deletion (or absent).
C32_AppendsNewClustersOnly ==
    output.kind = "updateClusterInfo" =>
        LET old == input.infos
            new == output.infos
            added == {i \in DOMAIN new : i > Len(old)}
        IN /\ Len(new) >= Len(old)
           /\ \A i \in DOMAIN old : new[i] = old[i]
           /\ \A i \in added :
                 /\ new[i] = [cluster |-> new[i].cluster, status |-> "",
                              hash |-> 0, msg |-> "nil"]
                 /\ clusterExists[new[i].cluster]
                 /\ ~clusterDeleting[new[i].cluster]
                 /\ \A j \in DOMAIN new : new[j].cluster = new[i].cluster => j = i
           /\ \A c \in Clusters :
                 (clusterExists[c] /\ ~clusterDeleting[c])
                 => \E i \in DOMAIN new : new[i].cluster = c

\* updateClusterInfo has run on a list with an entry for a Cluster, in front
\* of a second Cluster that is marked for deletion: nothing was appended
C32_Witness ==
    /\ output.kind = "updateClusterInfo"
    /\ Len(input.infos) = 1
    /\ \E c \in Clusters : clusterDeleting[c] /\ c # input.infos[1].cluster
    /\ output.infos = input.infos

\* ------------------------ SpecPush: AgentSendReportsNoGateway, one Classifier
\* A faulty handler: the CRDs are deployed before the kubeconfig is looked at.
deployClassifierWithKubeconfigInClusterCRDsFirst(acc, p, c, failAt) ==
    LET request == IF failAt = 1 \/ acc.request[c] # NoObject THEN acc.request[c]
                   ELSE [cpEndpoint |-> acc.cpEndpoint]
    IN [access |-> [acc EXCEPT !.request[c] = request,
                               !.managed[c].crds = @ \/ failAt # 1],
        err |-> TRUE]

\* deployClassifierWithKubeconfigInCluster for classifier p and cluster c:
\*   1 createAccessRequest: the AccessRequest of the cluster is created, with
\*     the control plane endpoint, when none is found;
\*   2 getKubeconfigFromAccessRequest, an error when there is no kubeconfig yet;
\*   3 updateSecretWithAccessManagementKubeconfig: the kubeconfig is written to
\*     the Secret of the managed cluster;
\*   4 deployCRDs, 5 deployClassifierAgent, 6 deployClassifierInstance.
\* failAt: the call that returns an error of the API server (0: none does); a
\* call that returns an error has written nothing.  Returns what the
\* management and the managed cluster hold afterwards and whether an error is
\* returned.
deployClassifierWithKubeconfigInCluster(acc, p, c, failAt) ==
    LET request == IF failAt = 1 \/ acc.request[c] # NoObject THEN acc.request[c]
                   ELSE [cpEndpoint |-> acc.cpEndpoint]
        acc1 == [acc EXCEPT !.request[c] = request]
        kubeconfig == getKubeconfigFromAccessRequest(acc1, c)
        \* the calls that returned no error
        done == IF failAt = 1 THEN 0
                ELSE IF failAt = 2 THEN 1
                ELSE IF kubeconfig = NoKubeconfig THEN 2
                ELSE IF failAt = 0 THEN 6
                ELSE failAt - 1
    IN [access |-> [acc1 EXCEPT
                       !.managed[c].secret = IF done >= 3 THEN kubeconfig ELSE @,
                       !.managed[c].crds = @ \/ done >= 4,
                       !.managed[c].agent = @ \/ done >= 5,
                       !.managed[c].instances = IF done = 6 THEN @ \cup {p} ELSE @],
        err |-> done < 6]

\* A worker of the deployer runs the handler of a queued deploy.
PushHandler ==
    /\ \E p \in DeployPolicies, c \in Clusters, failAt \in 0..6 :
          /\ queue[p][c][FALSE] = "inprogress"
          /\ \E r \in {deployClassifierWithKubeconfigInCluster(access, p, c, failAt)} :
                /\ access' = r.access
                /\ queue' = [queue EXCEPT ![p][c][FALSE] =
                                 IF r.err THEN "failed" ELSE "done"]
    /\ UNCHANGED <<objectVars, fleetVars, labelVars, clusterInfo, indexVars, setVars,
                   pc, scope, lastPass, changes, collectVars, ClassifierReportMode,
                   callVars>>

\* The access manager issues the kubeconfig of an AccessRequest, or renews it.
PushRotate ==
    /\ changes < MaxPushChanges
    /\ changes' = changes + 1
    /\ \E c \in Clusters, kubeconfig \in 1..2 :
          /\ access.request[c] # NoObject
          /\ access.kubeconfig[c] # kubeconfig
          /\ access' = [access EXCEPT !.kubeconfig[c] = kubeconfig]
    /\ UNCHANGED <<objectVars, fleetVars, labelVars, clusterInfo, indexVars, setVars,
                   queue, pc, scope, lastPass, collectVars, ClassifierReportMode,
                   callVars>>

\* The controller is restarted with another control plane endpoint: what it
\* held in memory (the maps, the sets, the queue of the deployer with its
\* results) is gone.
PushRestart ==
    /\ changes < MaxPushChanges
    /\ changes' = changes + 1
    /\ \E cpEndpoint \in 1..2 :
          /\ access.cpEndpoint # cpEndpoint
          /\ access' = [access EXCEPT !.cpEndpoint = cpEndpoint]
    /\ queue' = [p \in Policies |-> [c \in Clusters |-> [cleanup \in BOOLEAN |-> "none"]]]
    /\ ClusterMap' = [c \in Clusters |-> {}]
    /\ ClassifierMap' = [p \in Policies |-> {}]
    /\ ClassifierSet' = {}
    /\ AllClassifierSet' = {}
    /\ UNCHANGED <<objectVars, fleetVars, labelVars, clusterInfo, Mux, pc, scope,
                   lastPass, collectVars, ClassifierReportMode, callVars>>

InitPush ==
    /\ InitReconciler
    /\ clusterDeleting = [c \in Clusters |-> FALSE]
    /\ ClassifierReportMode = "AgentSendReportsNoGateway"
    /\ remote = NoReports.remote
    /\ mirror = NoReports.mirror
    /\ collector = NoReports.collector
    /\ input = NoCall
    /\ output = NoCall

NextPush ==
    \/ DeployNormal
    \/ DeployEditSpec
    \/ PushHandler
    \/ PushRotate
    \/ PushRestart

SpecPush == InitPush /\ [][NextPush]_vars

\* C33: in AgentSendReportsNoGateway mode, a pass over a Classifier whose entry
\* for a cluster is Provisioned with the hash of the present Spec and of
\* another kubeconfig or control plane endpoint than the present ones computes
\* another hash, calls Deployer.Deploy for the cluster and leaves the entry
\* Provisioning with the new hash; and the entry a pass leaves for a cluster
\* that has no kubeconfig carries the hash of the Spec alone.
C33_CredentialChangeRedeploys ==
    [][\A p \in Policies, c \in Clusters :
          LET spec == ClassifierSpec(specLabels[p], 0, 0)
              kubeconfig == getKubeconfigFromAccessRequest(access, c)
              now == getCurrentHash(ClassifierReportMode, spec, kubeconfig,
                                    access.cpEndpoint)
              prev == getClassifierInClusterHashAndStatus(clusterInfo[p], c)
              next == getClassifierInClusterHashAndStatus(clusterInfo'[p], c)
              other == \E k \in 1..2, e \in 1..2 :
                          /\ <<k, e>> # <<kubeconfig, access.cpEndpoint>>
                          /\ prev.hash = getCurrentHash(ClassifierReportMode, spec, k, e)
              \* a pass over p: the other steps count a change or end a
              \* queued deploy
              pass == /\ changes' = changes
                      /\ lastPass'.policy = p
                      /\ \A d \in Clusters :
                            queue[p][d][FALSE] = "inprogress"
                            => queue'[p][d][FALSE] = "inprogress"
          IN pass =>
                /\ (/\ kubeconfig # NoKubeconfig
                    /\ prev.status = "Provisioned"
                    /\ other
                    /\ canProceed(c))
                   => /\ now # prev.hash
                      /\ c \in lastPass'.deploy
                      /\ next = [hash |-> now, status |-> "Provisioning"]
                /\ (kubeconfig = NoKubeconfig /\ next.status # "nil")
                   => next.hash = classifierHash(spec)]_vars

\* A pass has called Deployer.Deploy for a cluster whose secret holds another
\* kubeconfig than the AccessRequest now refers to, with the Classifier
\* deployed there.
C33_Witness ==
    \E p \in Policies, c \in Clusters :
       /\ lastPass.kind = "normal" /\ lastPass.policy = p
       /\ c \in lastPass.deploy
       /\ p \in access.managed[c].instances
       /\ access.managed[c].secret # NoKubeconfig
       /\ access.managed[c].secret # access.kubeconfig[c]
       /\ getClassifierInClusterHashAndStatus(clusterInfo[p], c).status = "Provisioning"
       /\ queue[p][c][FALSE] = "inprogress"

\* C34: deployClassifierWithKubeconfigInCluster creates the AccessRequest of
\* the cluster, with the control plane endpoint, when there is none and
\* leaves one it finds as it is; whatever it writes to the managed cluster
\* it writes with the AccessRequest in place and after the present kubeconfig
\* went into the secret: no CRDs without the secret, no agent without the
\* CRDs, no Classifier without the agent; and a run that finds no kubeconfig
\* fails and writes nothing to the managed cluster.
C34_HandlerOrder ==
    [][\A c \in Clusters :
          LET old == access.managed[c]
              new == access'.managed[c]
          IN /\ access.request[c] # NoObject => access'.request[c] = access.request[c]
             /\ access'.request[c] # access.request[c]
                => access'.request[c] = [cpEndpoint |-> access.cpEndpoint]
             /\ new # old
                => /\ access'.request[c] # NoObject
                   /\ access.kubeconfig[c] # NoKubeconfig
                   /\ new.secret = access.kubeconfig[c]
             /\ new.crds => new.secret # NoKubeconfig
             /\ new.agent => new.crds
             /\ new.instances # {} => new.agent
             /\ \A p \in Policies :
                   (/\ queue[p][c][FALSE] = "inprogress"
                    /\ queue'[p][c][FALSE] \in {"done", "failed"}
                    /\ getKubeconfigFromAccessRequest(access', c) = NoKubeconfig)
                   => (queue'[p][c][FALSE] = "failed" /\ new = old)]_vars

\* The handler has deployed the Classifier with the renewed kubeconfig to a
\* cluster whose AccessRequest was created for another control plane endpoint
\* than the present one.
C34_Witness ==
    \E p \in Policies, c \in Clusters :
       /\ access.request[c] # NoObject
       /\ access.request[c].cpEndpoint # access.cpEndpoint
       /\ queue[p][c][FALSE] = "done"
       /\ p \in access.managed[c].instances
       /\ access.managed[c].secret = 2

\* ------------------ SpecFleet: one Classifier, a fixed fleet, reports change
\* The controller keeps reconciling the Classifier (a pass that returns an
\* error or asks for a requeue is run again) and the deployer completes every
\* request it holds without an error and keeps the result; the fleet and the
\* Spec stay as they are, the agents report finitely many changes.
NextFleet ==
    \/ DeployNormal
    \/ DeployQueueDone
    \/ LabelsSetReport

SpecFleet ==
    /\ Init
    /\ [][NextFleet]_vars
    /\ WF_vars(DeployNormal)
    /\ WF_vars(DeployQueueDone)

\* C35: with every cluster existing, ready and not paused, the Spec unchanged
\* and every queued deploy completed without an error, the passes reach a
\* point from which every pair of the Classifier and a cluster is Provisioned
\* with the hash of the Spec and the pass returns no error and asks for no
\* requeue, however many clusters of the fleet have a matching report.
C35_FleetConverges ==
    <>[](\A p \in DeployPolicies, c \in Clusters : reports[p][c] => clusterExists[c])
    => <>[](\A p \in DeployPolicies :
               /\ lastPass.kind = "normal" /\ lastPass.policy = p
               /\ lastPass.requeueAfter = 0 /\ ~lastPass.err
               /\ \A c \in Clusters :
                     clusterExists[c] => ProvisionedWithCurrentHash(p, c))

C37_DeletedClassifierNotIndexed ==
    \A p \in Policies :
       (/\ lastPass.kind = "delete" /\ lastPass.policy = p
        /\ lastPass.finalizerRemoved
        /\ phase[p] = "absent")
       => /\ \A c \in Clusters : p \notin ClusterMap[c]
          /\ ClassifierMap[p] = {}
          /\ p \notin ClassifierSet
          /\ p \notin AllClassifierSet

\* C38: a worker calls Deployer.Deploy for a Classifier only when the
\* Classifier carries the finalizer already; and a pass whose patch of the
\* finalizer fails goes straight to its end, where it returns an error,
\* having called nothing but the patch and changed nothing in the queue.
C38_FinalizerBeforeDeploy ==
    [][\A p \in Policies :
          /\ (\E c \in Clusters :
                 \/ queue'[p][c][FALSE] = "inprogress" /\ queue[p][c][FALSE] # "inprogress"
                 \/ /\ Len(scope'[p].log) > Len(scope[p].log)
                    /\ scope'[p].log[Len(scope'[p].log)] = Call("Deployer.Deploy", c))
             => finalizer[p]
          /\ (pc[p] = "idle" /\ pc'[p] = "close")
             => /\ queue' = queue
                /\ scope'[p].err
                /\ scope'[p].log = <<Call("Patch Classifier", ZeroRef)>>
          /\ (pc[p] = "close" /\ pc'[p] = "idle" /\ phase[p] = "live" /\ scope[p].err)
             => /\ queue' = queue
                /\ lastPass'.err
                /\ lastPass'.deploy = {}]_vars

\* A pass is about to return after it called Deployer.Deploy for a Classifier
\* that carries the finalizer, the pass before it having ended with the error
\* of the patch.
C38_Witness ==
    \E p \in Policies, c \in Clusters :
       /\ pc[p] = "close"
       /\ finalizer[p]
       /\ queue[p][c][FALSE] = "inprogress"
       /\ \E i \in DOMAIN scope[p].log : scope[p].log[i] = Call("Deployer.Deploy", c)
       /\ lastPass.kind = "normal" /\ lastPass.policy = p /\ lastPass.err

\* ------------- SpecReports: the collector next to the passes of a Classifier
\* removeClassifierReports: every ClassifierReport of the management cluster
\* labelled with the name of the Classifier is deleted.
removeClassifierReports(m, p) ==
    [k \in MirrorKeys |->
        IF m[k] # NoObject /\ m[k].labels.classifier = PolicyName(p)
        THEN NoObject ELSE m[k]]

\* Reconcile of a Classifier marked for deletion, with the ClassifierReports
\* of the management cluster: reconcileDelete removes them once
\* undeployClassifier returns no error, then drops the finalizer.
ReportsDelete ==
    /\ \E p \in DeployPolicies :
          /\ phase[p] = "deleting"
          /\ pc[p] = "idle"
          /\ Mux = NoPolicy
          /\ \E owner \in {RemoveAll(keyOwner, p, StatusRefs(matchingStatuses[p]))} :
             \E un \in {undeployClassifier(queue, p, clusterInfo[p])} :
                /\ keyOwner' = owner
                /\ ClassifierSet' = ClassifierSet \ {p}
                /\ AllClassifierSet' = AllClassifierSet \ {p}
                /\ queue' = un.queue
                /\ IF un.err
                   THEN /\ matchingStatuses' = [matchingStatuses EXCEPT ![p] =
                              [i \in DOMAIN un.clusterInfo |->
                                  [ZeroStatus EXCEPT
                                      !.clusterRef = un.clusterInfo[i].cluster]]]
                        /\ lastPass' = PassOf("delete", p, {}, un.undeploy,
                                              InfoClusters(un.clusterInfo),
                                              deleteRequeueAfter, FALSE, FALSE)
                        /\ UNCHANGED <<phase, finalizer, clusterInfo, reports, mirror>>
                   ELSE /\ reports' = [reports EXCEPT ![p] = [c \in Clusters |-> FALSE]]
                        /\ mirror' = removeClassifierReports(mirror, p)
                        /\ finalizer' = [finalizer EXCEPT ![p] = FALSE]
                        /\ phase' = [phase EXCEPT ![p] = "absent"]
                        /\ clusterInfo' = [clusterInfo EXCEPT ![p] = <<>>]
                        /\ matchingStatuses' = [matchingStatuses EXCEPT ![p] = <<>>]
                        /\ lastPass' = PassOf("delete", p, {}, un.undeploy, {}, 0,
                                              FALSE, TRUE)
    /\ UNCHANGED <<remote, collector, callVars, ClassifierReportMode, access>>
    /\ UNCHANGED <<specLabels, fleetVars, clusterLabels, indexVars, pc, scope, changes>>

NextReports ==
    \/ CollectList
    \/ CollectCluster
    \/ CollectReport
    \/ CollectSleep
    \/ CollectRemoteChange
    \/ DeployNormal
    \/ DeployDeleteClassifier
    \/ DeployQueueDone
    \/ ReportsDelete

SpecReports == Init /\ [][NextReports]_vars

\* C39: once a reconcileDelete pass has removed the finalizer of a Classifier,
\* the management cluster holds no ClassifierReport labelled with the name of
\* that Classifier, whatever the collector does next to the pass and whatever
\* the managed clusters hold.
C39_NoReportAfterFinalizer ==
    \A p \in Policies :
       (/\ phase[p] = "absent"
        /\ lastPass.kind = "delete" /\ lastPass.policy = p
        /\ lastPass.finalizerRemoved)
       => \A k \in MirrorKeys :
             mirror[k] # NoObject => mirror[k].labels.classifier # PolicyName(p)

\* C40: no step deletes a label of a Cluster; and the label step of a pass
\* leaves every label as it is but the labels of its Spec that the key
\* manager lets the Classifier manage on the clusters matching in this pass,
\* which get the value of the Classifier: nothing changes on a cluster of the
\* persisted status that matches no more, nor for a key the Spec has dropped.
C40_NoLabelDeleted ==
    [][\A c \in Clusters, k \in Keys :
          /\ clusterLabels[c][k] # NoPolicy => clusterLabels'[c][k] # NoPolicy
          /\ \A p \in Policies :
                (pc[p] = "labels" /\ pc'[p] = "close")
                => /\ (\/ c \notin scope[p].current
                       \/ k \notin scope[p].labels
                       \/ ~CanManageLabel(keyOwner, p, c, k))
                      => clusterLabels'[c][k] = clusterLabels[c][k]
                   /\ clusterLabels'[c][k] \in {clusterLabels[c][k], p}]_vars

\* A pass of a Classifier has ended, without an error, that found a cluster
\* matching no more and a key dropped from the Spec: the cluster still carries
\* the label the Classifier had set.
C40_Witness ==
    \E p \in Policies, c \in Clusters, k \in Keys :
       /\ pc[p] = "idle"
       /\ lastPass.kind = "normal" /\ lastPass.policy = p /\ ~lastPass.err
       /\ ~reports[p][c]
       /\ c \notin StatusRefs(matchingStatuses[p])
       /\ k \notin specLabels[p]
       /\ clusterLabels[c][k] = p

====
